---------------------------- MODULE Spec2Model ----------------------------
(***************************************************************************)
(* State-machine model of the marketplace reconciliation engine            *)
(* (Wildberries / Ozon / Yandex catalogs).                                 *)
(*                                                                         *)
(* Text is modelled as a sequence of characters, one TLA+ string per       *)
(* character.  Cyrillic letters are written in a letter-for-letter         *)
(* transliteration (one token per letter, e.g. "sh" is the single letter   *)
(* 'ш', "yo" is 'ё', "e" is 'е'), so lengths, substrings and the ё/е       *)
(* distinction are those of the original text.  The original text of every *)
(* literal is given in the comment above it.                               *)
(*                                                                         *)
(* Numbers are fixed-point: Num(n) stands for the number n / 1000.         *)
(***************************************************************************)
EXTENDS Integers, Sequences, FiniteSets, TLC

VARIABLES
    dfs,            \* marketplace -> table (the DataFrames of the run)
    dfs_loaded,     \* history: the tables as loaded at the start of the run
    dfs_before,     \* history: the tables before the last executed step
    pc,             \* position inside synchronize_data
    ai_validation_log,  \* ValidationChain.ai_validation_log
    ai_requests,    \* history: the values sent to the Oracle's value matcher
    v_call,         \* the arguments of a direct call of the Validation Cascade
    v_out,          \* history: what that call returned
    comparison_result,  \* DataSynchronizer.comparison_result
    column_validations, \* DataSynchronizer.column_validations
    ai_comparator,  \* DataSynchronizer.ai_comparator: present or not, and its answers
    changes_log,    \* DataSynchronizer.changes_log
    fill_trace,     \* history: the write decisions of _fill_marketplace_value
    run,            \* history: 1 in the first run, 2 in a run on its result
    ai_call,        \* the arguments of a call of compare_columns and the Oracle's responses
    composite_in,   \* the argument of a direct call of parse_composite_dimensions
    composite_out,  \* history: what parsing it, and formatting the parsed triple, returned
    schemas,        \* table schemas: rows (id, user_id, schema_name)
    schema_matches, \* table schema_matches
    schema_seq,     \* the AUTOINCREMENT counter of table schemas
    creation,       \* history: the last run of finalize_schema_creation or delete_schema
    loaded_schema_id, \* history: the schema whose matches process_files read last
    processing,     \* the run's row of table processing_history
    proc_pc,        \* position inside BackgroundProcessor.process_files
    sync_task,      \* the asyncio task that runs synchronize_data in the executor
    sent,           \* the documents sent to the user, in order
    cancelled_at,   \* history: the position at which cancel_processing came first
    header_row,     \* the labels _load_all_dataframes read from the header row of a sheet
    headers         \* history: what _handle_duplicate_columns made of them

syncVars == <<dfs, dfs_loaded, dfs_before, pc>>
valVars == <<ai_validation_log, ai_requests, v_call, v_out>>
engVars == <<comparison_result, column_validations, ai_comparator, changes_log,
             fill_trace, run, ai_call>>
dbVars == <<schemas, schema_matches, schema_seq, creation, loaded_schema_id>>
procVars == <<processing, proc_pc, sync_task, sent, cancelled_at>>
loadVars == <<header_row, headers>>
appVars == <<composite_in, composite_out, dbVars, procVars, loadVars>>
vars == <<syncVars, valVars, engVars, appVars>>

(***************************************************************************)
(* Bounds of the model                                                     *)
(***************************************************************************)
MaxRowsTotal == 4
MaxParts == 2
MaxFilled == 2

(***************************************************************************)
(* Characters and strings                                                  *)
(***************************************************************************)
LowerChars ==
    <<"a","b","c","ch","d","e","eh","f","g","h","i","j","k","l","m","mz","n","o","p","q",
      "r","s","sch","sh","t","tz","u","v","w","x","y","ya","yo","yu","z","zh">>
UpperChars ==
    <<"A","B","C","CH","D","E","EH","F","G","H","I","J","K","L","M","MZ","N","O","P","Q",
      "R","S","SCH","SH","T","TZ","U","V","W","X","Y","YA","YO","YU","Z","ZH">>
Digits == <<"0","1","2","3","4","5","6","7","8","9">>

\* Code-point order of the ASCII characters used in identifiers (for sorted()).
CodePointOrder ==
    <<" ","*","-",".","/","0","1","2","3","4","5","6","7","8","9",";",
      "A","B","C","D","E","F","G","H","I","J","K","L","M","N","O","P","Q","R","S","T","U",
      "V","W","X","Y","Z","a","b","c","d","e","f","g","h","i","j","k","l","m","n","o","p",
      "q","r","s","t","u","v","w","x","y","z">>

\* seq.index(x) + 1, or 0 when x is not in seq
RECURSIVE IndexFrom(_, _, _)
IndexFrom(seq, x, i) ==
    IF i > Len(seq) THEN 0
    ELSE IF seq[i] = x THEN i
    ELSE IndexFrom(seq, x, i + 1)

IndexOf(seq, x) == IndexFrom(seq, x, 1)

InSeq(seq, x) == IndexOf(seq, x) # 0

UpperSet == {UpperChars[i] : i \in 1..Len(UpperChars)}
LowerSet == {LowerChars[i] : i \in 1..Len(LowerChars)}
LowerOf == [c \in UpperSet |-> LowerChars[IndexOf(UpperChars, c)]]
UpperOf == [c \in LowerSet |-> UpperChars[IndexOf(LowerChars, c)]]

\* str.lower() on one character
LowerChar(c) == IF c \in UpperSet THEN LowerOf[c] ELSE c
\* str.upper() on one character
UpperChar(c) == IF c \in LowerSet THEN UpperOf[c] ELSE c

\* str.lower()
Lower(s) == [i \in 1..Len(s) |-> LowerChar(s[i])]
\* str.upper()
Upper(s) == [i \in 1..Len(s) |-> UpperChar(s[i])]

DigitSet == {Digits[i] : i \in 1..Len(Digits)}

IsSpace(c) == c = " "
IsDigit(c) == c \in DigitSet

RECURSIVE LStrip(_)
LStrip(s) == IF s # <<>> /\ IsSpace(Head(s)) THEN LStrip(Tail(s)) ELSE s

RECURSIVE RStrip(_)
RStrip(s) ==
    IF s # <<>> /\ IsSpace(s[Len(s)]) THEN RStrip(SubSeq(s, 1, Len(s) - 1)) ELSE s

\* str.strip()
Strip(s) == RStrip(LStrip(s))

\* s[i .. i+len(sub)-1] == sub
MatchAt(s, sub, i) == \A j \in 1..Len(sub) : s[i + j - 1] = sub[j]

\* sub in s
Contains(s, sub) ==
    \E i \in 1..(Len(s) - Len(sub) + 1) : MatchAt(s, sub, i)

\* s.endswith(sub)
EndsWith(s, sub) ==
    Len(sub) <= Len(s) /\ SubSeq(s, Len(s) - Len(sub) + 1, Len(s)) = sub

\* s.replace(a, b) for single characters
ReplaceChar(s, a, b) == [i \in 1..Len(s) |-> IF s[i] = a THEN b ELSE s[i]]

\* s.split(sep) for a one-character separator: always Len+1 parts, empty parts kept
RECURSIVE SplitBy(_, _)
SplitBy(s, sep) ==
    IF ~InSeq(s, sep) THEN <<s>>
    ELSE LET i == IndexOf(s, sep)
         IN <<SubSeq(s, 1, i - 1)>> \o SplitBy(SubSeq(s, i + 1, Len(s)), sep)

\* s.split(): the whitespace-separated words, no empty word
SplitWords(s) ==
    LET parts == SplitBy(s, " ")
    IN SelectSeq(parts, LAMBDA p : p # <<>>)

\* sep.join(parts)
RECURSIVE Join(_, _)
Join(parts, sep) ==
    IF parts = <<>> THEN <<>>
    ELSE IF Len(parts) = 1 THEN parts[1]
    ELSE parts[1] \o sep \o Join(Tail(parts), sep)

SeqToSet(seq) == {seq[i] : i \in 1..Len(seq)}

CodePointSet == {CodePointOrder[i] : i \in 1..Len(CodePointOrder)}
CodePointOf == [c \in CodePointSet |-> IndexOf(CodePointOrder, c)]
CharOrd(c) == IF c \in CodePointSet THEN CodePointOf[c] ELSE Len(CodePointOrder) + 1

\* Python's str comparison a < b (lexicographic by code point)
RECURSIVE StrLess(_, _)
StrLess(a, b) ==
    IF b = <<>> THEN FALSE
    ELSE IF a = <<>> THEN TRUE
    ELSE IF CharOrd(Head(a)) # CharOrd(Head(b)) THEN CharOrd(Head(a)) < CharOrd(Head(b))
    ELSE StrLess(Tail(a), Tail(b))

\* sorted(S) for a set of strings
RECURSIVE Sorted(_)
Sorted(S) ==
    IF S = {} THEN <<>>
    ELSE LET m == CHOOSE x \in S : \A y \in S \ {x} : ~StrLess(y, x)
         IN <<m>> \o Sorted(S \ {m})

(***************************************************************************)
(* Cell values: None (also NaN), a number, or a string                     *)
(***************************************************************************)
None == [k |-> "none", n |-> 0, s |-> <<>>]
Num(x) == [k |-> "num", n |-> x, s |-> <<>>]
Str(t) == [k |-> "str", n |-> 0, s |-> t]
\* a Python int (numbers are kept in thousandths)
PyInt(x) == [k |-> "int", n |-> x * 1000, s |-> <<>>]
IsNumber(v) == v.k \in {"num", "int"}

\* pd.isna(v)
IsNA(v) == v.k = "none"

RECURSIVE NatDigits(_)
NatDigits(n) ==
    IF n < 10 THEN <<Digits[n + 1]>> ELSE NatDigits(n \div 10) \o <<Digits[(n % 10) + 1]>>

\* the decimals of a fraction given in thousandths, trailing zeros dropped
FracDigits(f) ==
    IF f % 100 = 0 THEN <<Digits[(f \div 100) + 1]>>
    ELSE IF f % 10 = 0 THEN <<Digits[(f \div 100) + 1], Digits[((f \div 10) % 10) + 1]>>
    ELSE <<Digits[(f \div 100) + 1], Digits[((f \div 10) % 10) + 1], Digits[(f % 10) + 1]>>

\* str(x) of a non-negative float: "12.0", "12.5"
NumRepr(n) == NatDigits(n \div 1000) \o <<".">> \o FracDigits(n % 1000)

\* str(v)
StrOf(v) ==
    CASE v.k = "str" -> v.s
      [] v.k = "num" -> NumRepr(v.n)
      [] v.k = "int" -> NatDigits(v.n \div 1000)
      [] OTHER -> <<"N","o","n","e">>

\* the test used throughout: pd.isna(v) or not str(v).strip()
IsBlank(v) == IsNA(v) \/ Strip(StrOf(v)) = <<>>

(***************************************************************************)
(* Static configuration                                                    *)
(***************************************************************************)
MP == {"wildberries", "ozon", "yandex"}
MPOrder == <<"wildberries", "ozon", "yandex">>

\* 'Артикул продавца'
WB_ARTICLE ==
    <<"A","r","t","i","k","u","l"," ","p","r","o","d","a","v","c","a">>
\* 'Артикул*'
OZON_ARTICLE ==
    <<"A","r","t","i","k","u","l","*">>
\* 'Ваш SKU *'
YANDEX_ARTICLE ==
    <<"V","a","sh"," ","S","K","U"," ","*">>

ARTICLE_COLUMNS ==
    [wildberries |-> WB_ARTICLE, ozon |-> OZON_ARTICLE, yandex |-> YANDEX_ARTICLE]

(***************************************************************************)
(* Tables (DataFrames): ordered column labels, the labels of the columns   *)
(* with a numeric dtype, and the rows (one cell per column)                *)
(***************************************************************************)
Table(cols, numeric, rows) == [columns |-> cols, numeric |-> numeric, rows |-> rows]

\* pd.DataFrame(data, columns=headers): a column is numeric when it holds
\* numbers and empty cells only, and at least one number
InferNumeric(cols, rows) ==
    {cols[c] : c \in {c \in 1..Len(cols) :
                        /\ \A r \in 1..Len(rows) : rows[r][c].k \in {"num", "int", "none"}
                        /\ \E r \in 1..Len(rows) : rows[r][c].k \in {"num", "int"}}}

\* the cells of the numeric columns as the frame holds them: an int becomes a
\* float unless its column holds ints only (int64)
AsFloats(cols, numeric, rows) ==
    [r \in 1..Len(rows) |->
        [c \in 1..Len(cols) |->
            IF /\ cols[c] \in numeric
               /\ rows[r][c].k = "int"
               /\ \E q \in 1..Len(rows) : rows[q][c].k # "int"
            THEN Num(rows[r][c].n) ELSE rows[r][c]]]

LoadTable(cols, rows) ==
    Table(cols, InferNumeric(cols, rows), AsFloats(cols, InferNumeric(cols, rows), rows))

HasCol(t, col) == InSeq(t.columns, col)
ColIdx(t, col) == IndexOf(t.columns, col)
\* row.get(col) / df.at[r, col]
Cell(t, r, col) == t.rows[r][ColIdx(t, col)]
NRows(t) == Len(t.rows)
\* df.at[r, col] = v
SetCell(t, r, col, v) ==
    [t EXCEPT !.rows[r][ColIdx(t, col)] = v]

(***************************************************************************)
(* Row Aligner (ArticleAligner)                                            *)
(***************************************************************************)
\* 'идентифицировать'
KW_IDENT ==
    <<"i","d","e","n","t","i","f","i","c","i","r","o","v","a","t","mz">>
\* 'описание'
KW_OPISANIE ==
    <<"o","p","i","s","a","n","i","e">>
\* 'заполнить'
KW_ZAPOLNIT ==
    <<"z","a","p","o","l","n","i","t","mz">>
\* 'пример'
KW_PRIMER ==
    <<"p","r","i","m","e","r">>
\* 'название товара'
KW_NAZVANIE ==
    <<"n","a","z","v","a","n","i","e"," ","t","o","v","a","r","a">>
\* 'по которому'
KW_PO_KOTOROMU ==
    <<"p","o"," ","k","o","t","o","r","o","m","u">>

InstructionKeywords ==
    {KW_IDENT, KW_OPISANIE, KW_ZAPOLNIT, KW_PRIMER, KW_NAZVANIE, KW_PO_KOTOROMU}

MaxArticleLen == 50

\* the filter of both _collect_all_articles and _add_missing_articles:
\* dropna, astype(str).str.strip(), != '', no guidance keyword (case=False), len < 50
IsValidArticle(v) ==
    /\ ~IsNA(v)
    /\ LET a == Strip(StrOf(v))
       IN /\ a # <<>>
          /\ Len(a) < MaxArticleLen
          /\ ~\E kw \in InstructionKeywords : Contains(Lower(a), kw)

\* the cleaned identifiers of one table, as a set
valid_articles(t, article_col) ==
    {Strip(StrOf(Cell(t, r, article_col))) :
        r \in {q \in 1..NRows(t) : IsValidArticle(Cell(t, q, article_col))}}

collect_all_articles(d) ==
    UNION {IF HasCol(d[m], ARTICLE_COLUMNS[m])
           THEN valid_articles(d[m], ARTICLE_COLUMNS[m]) ELSE {} : m \in MP}

\* a placeholder row: every column None except the identifier
\* an aligner that inserts a row for every identifier of the union
add_all_articles(t, article_col, all_articles) ==
    LET new_rows == [i \in 1..Len(Sorted(all_articles)) |->
                        [c \in 1..Len(t.columns) |->
                            IF t.columns[c] = article_col
                            THEN Str(Sorted(all_articles)[i]) ELSE None]]
    IN Table(t.columns, t.numeric, new_rows \o t.rows)

NewRow(t, article_col, article) ==
    [i \in 1..Len(t.columns) |-> IF t.columns[i] = article_col THEN Str(article) ELSE None]

\* an aligner that appends the placeholder rows at the end of the table
add_missing_articles_at_end(t, article_col, all_articles) ==
    LET sortedMissing == Sorted(all_articles \ valid_articles(t, article_col))
    IN [t EXCEPT !.rows =
           t.rows \o [i \in 1..Len(sortedMissing) |-> NewRow(t, article_col, sortedMissing[i])]]

add_missing_articles(t, article_col, all_articles) ==
    LET validRows == {r \in 1..NRows(t) : IsValidArticle(Cell(t, r, article_col))}
        last_filled_position ==
            IF validRows # {} THEN CHOOSE r \in validRows : \A q \in validRows : q <= r
            ELSE 0
        missing_articles == all_articles \ valid_articles(t, article_col)
        sortedMissing == Sorted(missing_articles)
        new_rows == [i \in 1..Len(sortedMissing) |-> NewRow(t, article_col, sortedMissing[i])]
    IN IF missing_articles = {} THEN t
       ELSE [t EXCEPT !.rows =
                SubSeq(t.rows, 1, last_filled_position)
                \o new_rows
                \o SubSeq(t.rows, last_filled_position + 1, NRows(t))]

align_articles(d) ==
    LET all_articles == collect_all_articles(d)
    IN [m \in MP |->
          IF HasCol(d[m], ARTICLE_COLUMNS[m])
          THEN add_missing_articles(d[m], ARTICLE_COLUMNS[m], all_articles)
          ELSE d[m]]

(***************************************************************************)
(* Validation Cascade (ValidationChain) and the Oracle's value matcher     *)
(***************************************************************************)
\* marketplace.upper()
MPUpper == [wildberries |-> "WILDBERRIES", ozon |-> "OZON", yandex |-> "YANDEX"]

\* VALUE_SEPARATORS: Ozon "; ", Yandex ", " (Wildberries keeps one value)
VALUE_SEPARATORS == [wildberries |-> <<>>, ozon |-> <<";"," ">>, yandex |-> <<","," ">>]

\* the method names written to the validation log:
\* 'Точное совпадение'
METHOD_EXACT == "Tochnoe sovpadenie"
\* 'Нормализация (регистр/ё-е)'
METHOD_NORMALIZED == "Normalizaciya (registr/yo-e)"
\* 'Извлечение числа'
METHOD_NUMBER == "Izvlechenie chisla"
\* 'Частичное совпадение (слова)'
METHOD_PARTIAL == "Chastichnoe sovpadenie (slova)"
\* 'AI запрос'
METHOD_AI == "AI zapros"

\* Python truthiness of a value: None, '' and 0 are falsy
Truthy(v) ==
    CASE v.k = "str" -> v.s # <<>>
      [] v.k \in {"num", "int"} -> v.n # 0
      [] OTHER -> FALSE

\* the first element of seq that satisfies P, as a value; None when there is none
RECURSIVE FirstFrom(_, _, _)
FirstFrom(seq, P(_), i) ==
    IF i > Len(seq) THEN None
    ELSE IF P(seq[i]) THEN Str(seq[i])
    ELSE FirstFrom(seq, P, i + 1)

First(seq, P(_)) == FirstFrom(seq, P, 1)

\* _normalize: lower(), 'ё' -> 'е', strip()
normalize(text) == Strip(ReplaceChar(Lower(text), "yo", "e"))

\* the maximal run of digits that starts at position i
RECURSIVE DigitRun(_, _)
DigitRun(s, i) ==
    IF i <= Len(s) /\ IsDigit(s[i]) THEN <<s[i]>> \o DigitRun(s, i + 1) ELSE <<>>

\* _extract_number: re.findall(r'\d+', text)[0]; <<>> stands for "no number"
extract_number(text) ==
    LET at == {i \in 1..Len(text) : IsDigit(text[i])}
    IN IF at = {} THEN <<>>
       ELSE DigitRun(text, CHOOSE i \in at : \A j \in at : i <= j)

\* level 1
exact_match(value, allowed_values) ==
    IF InSeq(allowed_values, value) THEN Str(value) ELSE None

\* level 2
normalized_match(value, allowed_values) ==
    LET value_normalized == normalize(value)
    IN First(allowed_values, LAMBDA allowed : normalize(allowed) = value_normalized)

\* level 3
number_match(value, allowed_values) ==
    LET number == extract_number(value)
    IN IF number = <<>> THEN None
       ELSE IF InSeq(allowed_values, number) THEN Str(number)
       ELSE First(allowed_values, LAMBDA allowed : extract_number(allowed) = number)

\* level 4
partial_match(value, allowed_values) ==
    LET value_words == SeqToSet(SplitWords(normalize(value)))
    IN First(allowed_values,
             LAMBDA allowed :
                 value_words # {}
                 /\ value_words \subseteq SeqToSet(SplitWords(normalize(allowed))))

\* One answer of the Semantic Oracle to a value-matching prompt: the text it
\* returned, or a failed call (ok = FALSE).
OracleText(t) == [ok |-> TRUE, text |-> t]
OracleFailure == [ok |-> FALSE, text |-> <<>>]

\* the Oracle of one run: its answer for each value it is asked about
OracleAnswer(oracle, value) ==
    IF value \in DOMAIN oracle THEN oracle[value] ELSE OracleFailure

\* AIComparator.match_value_with_list: result (a value or None) and the
\* prompts sent to the Oracle
match_value_with_list(value, allowed_values, oracle) ==
    IF value = <<>> \/ allowed_values = <<>> THEN [result |-> None, asked |-> <<>>]
    ELSE
      LET value_normalized == normalize(value)
          byNorm == First(allowed_values,
                          LAMBDA allowed : normalize(allowed) = value_normalized)
          value_words == SeqToSet(SplitWords(value_normalized))
          byWords == First(allowed_values,
                           LAMBDA allowed :
                               value_words \subseteq SeqToSet(SplitWords(normalize(allowed))))
          response == OracleAnswer(oracle, value)
          matched == Strip(response.text)
      IN IF ~IsNA(byNorm) THEN [result |-> byNorm, asked |-> <<>>]
         ELSE IF ~IsNA(byWords) THEN [result |-> byWords, asked |-> <<>>]
         ELSE IF ~response.ok THEN [result |-> None, asked |-> <<value>>]
         ELSE IF InSeq(allowed_values, matched)
              THEN [result |-> Str(matched), asked |-> <<value>>]
         ELSE [result |-> First(allowed_values,
                                LAMBDA allowed : normalize(matched) = normalize(allowed)),
               asked |-> <<value>>]

\* level 5
ai_match(value, allowed_values, oracle) ==
    LET r == match_value_with_list(value, allowed_values, oracle)
    IN IF Truthy(r.result) THEN r ELSE [result |-> None, asked |-> r.asked]

\* _log_match
log_match(original, matched, method, marketplace, column_name) ==
    [marketplace |-> MPUpper[marketplace], column |-> column_name,
     original |-> original, matched |-> matched.s, method |-> method]

ValidationOutcome(result, log, asked) == [result |-> result, log |-> log, asked |-> asked]

\* a level matched: log the match and return it
Hit(value_str, result, method, marketplace, column_name, asked) ==
    ValidationOutcome(result,
        <<log_match(value_str, result, method, marketplace, column_name)>>, asked)

\* a cascade that consults the number level before the normalization level
level_result_number_first(value_str, marketplace, column_name, has_ai, l1, l2, l3, l4, l5) ==
    IF Truthy(l1) THEN Hit(value_str, l1, METHOD_EXACT, marketplace, column_name, <<>>)
    ELSE IF Truthy(l3) THEN Hit(value_str, l3, METHOD_NUMBER, marketplace, column_name, <<>>)
    ELSE IF Truthy(l2) THEN Hit(value_str, l2, METHOD_NORMALIZED, marketplace, column_name, <<>>)
    ELSE IF Truthy(l4) THEN Hit(value_str, l4, METHOD_PARTIAL, marketplace, column_name, <<>>)
    ELSE IF has_ai /\ Truthy(l5.result)
         THEN Hit(value_str, l5.result, METHOD_AI, marketplace, column_name, l5.asked)
    ELSE IF has_ai THEN ValidationOutcome(None, <<>>, l5.asked)
    ELSE ValidationOutcome(None, <<>>, <<>>)

\* the order in which validate_value consults the five levels; l1..l4 are the
\* results of levels 1-4 and l5 that of the Oracle level
level_result(value_str, marketplace, column_name, has_ai, l1, l2, l3, l4, l5) ==
    IF Truthy(l1) THEN Hit(value_str, l1, METHOD_EXACT, marketplace, column_name, <<>>)
    ELSE IF Truthy(l2) THEN Hit(value_str, l2, METHOD_NORMALIZED, marketplace, column_name, <<>>)
    ELSE IF Truthy(l3) THEN Hit(value_str, l3, METHOD_NUMBER, marketplace, column_name, <<>>)
    ELSE IF Truthy(l4) THEN Hit(value_str, l4, METHOD_PARTIAL, marketplace, column_name, <<>>)
    ELSE IF has_ai /\ Truthy(l5.result)
         THEN Hit(value_str, l5.result, METHOD_AI, marketplace, column_name, l5.asked)
    ELSE IF has_ai THEN ValidationOutcome(None, <<>>, l5.asked)
    ELSE ValidationOutcome(None, <<>>, <<>>)

\* validate_value after value_str = str(value).strip()
validate_levels(value_str, marketplace, column_name, allowed_values, has_ai, oracle) ==
    level_result(value_str, marketplace, column_name, has_ai,
                 exact_match(value_str, allowed_values),
                 normalized_match(value_str, allowed_values),
                 number_match(value_str, allowed_values),
                 partial_match(value_str, allowed_values),
                 ai_match(value_str, allowed_values, oracle))

\* ValidationChain.validate_value: the accepted value (or None), the entries it
\* appends to ai_validation_log and the prompts it sends to the Oracle.
\* has_ai: self.ai_comparator is set.
validate_value(value, marketplace, column_name, allowed_values, has_ai, oracle) ==
    IF allowed_values = <<>> THEN ValidationOutcome(None, <<>>, <<>>)
    ELSE validate_levels(Strip(value), marketplace, column_name, allowed_values,
                         has_ai, oracle)

\* the loop of validate_multiple_values over the parts, returning at the
\* first part that does not validate; v is the outcome for the first part
RECURSIVE validate_parts(_, _, _, _, _, _, _)
RECURSIVE parts_step(_, _, _, _, _, _, _, _)
\* a loop that drops a part that does not validate and goes on
parts_step_skip(v, parts, marketplace, column_name, allowed_values, has_ai, oracle, acc) ==
    validate_parts(Tail(parts), marketplace, column_name, allowed_values, has_ai, oracle,
                   [validated |-> IF Truthy(v.result) THEN Append(acc.validated, v.result.s)
                                  ELSE acc.validated,
                    log |-> acc.log \o v.log, asked |-> acc.asked \o v.asked])

parts_step(v, parts, marketplace, column_name, allowed_values, has_ai, oracle, acc) ==
    IF Truthy(v.result)
    THEN validate_parts(Tail(parts), marketplace, column_name, allowed_values,
                        has_ai, oracle,
                        [validated |-> Append(acc.validated, v.result.s),
                         log |-> acc.log \o v.log, asked |-> acc.asked \o v.asked])
    ELSE [ok |-> FALSE, validated |-> acc.validated, log |-> acc.log \o v.log,
          asked |-> acc.asked \o v.asked]

validate_parts(parts, marketplace, column_name, allowed_values, has_ai, oracle, acc) ==
    IF parts = <<>> THEN [ok |-> TRUE, validated |-> acc.validated, log |-> acc.log,
                          asked |-> acc.asked]
    ELSE parts_step(validate_value(Head(parts), marketplace, column_name,
                                   allowed_values, has_ai, oracle),
                    parts, marketplace, column_name, allowed_values, has_ai, oracle, acc)

\* [p.strip() for p in parts]
StripAll(parts) == [i \in 1..Len(parts) |-> Strip(parts[i])]

\* the non-empty stripped parts of a ';'-separated value
value_parts(value_str) ==
    SelectSeq(StripAll(SplitBy(value_str, ";")), LAMBDA p : p # <<>>)

\* the formatting of the validated parts: Wildberries keeps the first one,
\* the others join them with the marketplace's separator
format_parts(marketplace, separator, r) ==
    IF ~r.ok \/ r.validated = <<>> THEN ValidationOutcome(None, r.log, r.asked)
    ELSE IF marketplace = "wildberries"
         THEN ValidationOutcome(Str(r.validated[1]), r.log, r.asked)
    ELSE IF separator # <<>>
         THEN ValidationOutcome(Str(Join(r.validated, separator)), r.log, r.asked)
    ELSE ValidationOutcome(None, r.log, r.asked)

\* validate_multiple_values after value_str = str(value).strip()
validate_multiple_str(value_str, marketplace, column_name, allowed_values, has_ai, oracle) ==
    IF ~InSeq(value_str, ";")
    THEN validate_value(value_str, marketplace, column_name, allowed_values,
                        has_ai, oracle)
    ELSE format_parts(marketplace, VALUE_SEPARATORS[marketplace],
                      validate_parts(value_parts(value_str), marketplace, column_name,
                                     allowed_values, has_ai, oracle,
                                     [validated |-> <<>>, log |-> <<>>, asked |-> <<>>]))

\* ValidationChain.validate_multiple_values
validate_multiple_values(value, marketplace, column_name, allowed_values, has_ai, oracle) ==
    IF ~Truthy(value) THEN ValidationOutcome(None, <<>>, <<>>)
    ELSE validate_multiple_str(Strip(StrOf(value)), marketplace, column_name,
                               allowed_values, has_ai, oracle)

(***************************************************************************)
(* ValueConverter                                                          *)
(***************************************************************************)
RECURSIVE DigitsToNat(_)
DigitsToNat(ds) ==
    IF ds = <<>> THEN 0
    ELSE DigitsToNat(SubSeq(ds, 1, Len(ds) - 1)) * 10 + (IndexOf(Digits, ds[Len(ds)]) - 1)

AllDigits(ds) == ds # <<>> /\ \A i \in 1..Len(ds) : IsDigit(ds[i])

\* the decimals of a literal as thousandths
FracToThousandths(ds) ==
    DigitsToNat(ds) * (CASE Len(ds) = 1 -> 100 [] Len(ds) = 2 -> 10 [] OTHER -> 1)

NotAFloat == [ok |-> FALSE, n |-> 0]

\* float(s) for a string: an unsigned decimal literal with at most three
\* decimals, surrounding whitespace ignored; ok = FALSE stands for ValueError
ParseFloatParts(parts) ==
    IF Len(parts) = 1 /\ AllDigits(parts[1])
    THEN [ok |-> TRUE, n |-> DigitsToNat(parts[1]) * 1000]
    ELSE IF Len(parts) = 2 /\ AllDigits(parts[1]) /\ AllDigits(parts[2]) /\ Len(parts[2]) <= 3
    THEN [ok |-> TRUE, n |-> DigitsToNat(parts[1]) * 1000 + FracToThousandths(parts[2])]
    ELSE NotAFloat

ParseFloat(s) == ParseFloatParts(SplitBy(Strip(s), "."))

\* float(value)
ToFloat(v) ==
    CASE IsNumber(v) -> [ok |-> TRUE, n |-> v.n]
      [] v.k = "str" -> ParseFloat(v.s)
      [] OTHER -> NotAFloat

mm_to_cm(n) == n \div 10
cm_to_mm(n) == n * 10
kg_to_g(n) == n * 1000
g_to_kg(n) == n \div 1000

\* the unit of "no unit detected"
NoUnit == "none"

\* detect_unit; the Cyrillic and the Latin spellings of a unit are the same
\* character sequence in this alphabet, except 'см' / 'cm'
detect_unit(column_name) ==
    IF column_name = <<>> THEN NoUnit
    ELSE IF Contains(Lower(column_name), <<"k","g">>) THEN "kg"
    ELSE IF \/ Contains(Lower(column_name), <<" ","g">>)
            \/ Contains(Lower(column_name), <<",","g">>)
            \/ Contains(Lower(column_name), <<"g","r","a","m">>)
            \/ EndsWith(Lower(column_name), <<"g">>) THEN "g"
    ELSE IF Contains(Lower(column_name), <<"m","m">>) THEN "mm"
    ELSE IF \/ Contains(Lower(column_name), <<"s","m">>)
            \/ Contains(Lower(column_name), <<"c","m">>) THEN "cm"
    ELSE NoUnit

\* the arithmetic of convert_value on a parsed number
converted_number(n, from_unit, to_unit, value) ==
    IF from_unit = "kg" /\ to_unit = "g" THEN Num(kg_to_g(n))
    ELSE IF from_unit = "g" /\ to_unit = "kg" THEN Num(g_to_kg(n))
    ELSE IF from_unit = "mm" /\ to_unit = "cm" THEN Num(mm_to_cm(n))
    ELSE IF from_unit = "cm" /\ to_unit = "mm" THEN Num(cm_to_mm(n))
    ELSE value

convert_value(value, from_unit, to_unit) ==
    IF from_unit = NoUnit \/ to_unit = NoUnit \/ from_unit = to_unit THEN value
    ELSE IF IsNA(value) THEN value
    ELSE IF ~ToFloat(value).ok THEN value
    ELSE converted_number(ToFloat(value).n, from_unit, to_unit, value)

smart_format_one_decimal(n) ==
    NatDigits((n + 50) \div 1000) \o <<".">> \o <<Digits[(((n + 50) \div 100) % 10) + 1]>>

\* smart_format: the integer when within 0.01 of it, else one decimal
smart_format(n) ==
    IF n % 1000 < 10 THEN NatDigits(n \div 1000)
    ELSE IF n % 1000 > 990 THEN NatDigits(n \div 1000 + 1)
    ELSE NatDigits((n + 50) \div 1000) \o <<".">> \o <<Digits[(((n + 50) \div 100) % 10) + 1]>>

(***************************************************************************)
(* DimensionsSynchronizer                                                  *)
(***************************************************************************)
\* 'Длина упаковки (целое число)'
WB_LENGTH ==
    <<"D","l","i","n","a"," ","u","p","a","k","o","v","k","i"," ","(","c","e","l","o","e"," ",
      "ch","i","s","l","o",")">>
\* 'Ширина упаковки (целое число)'
WB_WIDTH ==
    <<"SH","i","r","i","n","a"," ","u","p","a","k","o","v","k","i"," ","(","c","e","l","o","e",
      " ","ch","i","s","l","o",")">>
\* 'Высота упаковки (целое число)'
WB_HEIGHT ==
    <<"V","y","s","o","t","a"," ","u","p","a","k","o","v","k","i"," ","(","c","e","l","o","e",
      " ","ch","i","s","l","o",")">>
\* 'Длина упаковки, мм*'
OZON_LENGTH ==
    <<"D","l","i","n","a"," ","u","p","a","k","o","v","k","i",","," ","m","m","*">>
\* 'Ширина упаковки, мм*'
OZON_WIDTH ==
    <<"SH","i","r","i","n","a"," ","u","p","a","k","o","v","k","i",","," ","m","m","*">>
\* 'Высота упаковки, мм*'
OZON_HEIGHT ==
    <<"V","y","s","o","t","a"," ","u","p","a","k","o","v","k","i",","," ","m","m","*">>
\* 'Габариты с упаковкой, см'
YANDEX_COMPOSITE ==
    <<"G","a","b","a","r","i","t","y"," ","s"," ","u","p","a","k","o","v","k","o","j",","," ",
      "s","m">>

DIMENSIONS_MAPPING ==
    [wildberries |-> <<WB_LENGTH, WB_WIDTH, WB_HEIGHT>>,
     ozon        |-> <<OZON_LENGTH, OZON_WIDTH, OZON_HEIGHT>>,
     yandex      |-> <<YANDEX_COMPOSITE>>]

NoDims == [ok |-> FALSE, d |-> <<0, 0, 0>>]
Dims(l, w, h) == [ok |-> TRUE, d |-> <<l, w, h>>]

\* the three floats of a composite, when all parse and all are positive
dims_of_parts(f1, f2, f3) ==
    IF f1.ok /\ f2.ok /\ f3.ok /\ f1.n > 0 /\ f2.n > 0 /\ f3.n > 0
    THEN Dims(f1.n, f2.n, f3.n) ELSE NoDims

parse_composite_parts(parts) ==
    IF Len(parts) # 3 THEN NoDims
    ELSE dims_of_parts(ParseFloat(parts[1]), ParseFloat(parts[2]), ParseFloat(parts[3]))

parse_composite_dimensions(value) ==
    IF IsBlank(value) THEN NoDims
    ELSE parse_composite_parts(SplitBy(Strip(StrOf(value)), "/"))

format_composite_dimensions(d) ==
    Str(smart_format(d[1]) \o <<"/">> \o smart_format(d[2]) \o <<"/">> \o smart_format(d[3]))

\* row.get(col): the cell, None when the table has no such column
RowGet(t, r, col) == IF HasCol(t, col) THEN Cell(t, r, col) ELSE None

\* the key of a row: str(article).strip(), <<>> when the row has none
ArticleKey(t, r, article_col) ==
    IF IsBlank(RowGet(t, r, article_col)) THEN <<>>
    ELSE Strip(StrOf(RowGet(t, r, article_col)))

\* dict[key] = val on a dict kept as a sequence of <<key, val>> in insertion order
RECURSIVE DictPut(_, _, _)
DictPut(dict, key, val) ==
    IF dict = <<>> THEN <<<<key, val>>>>
    ELSE IF Head(dict)[1] = key THEN <<<<key, val>>>> \o Tail(dict)
    ELSE <<Head(dict)>> \o DictPut(Tail(dict), key, val)

DictKeys(dict) == {dict[i][1] : i \in 1..Len(dict)}

\* dict[key] of a key of the dictionary
DictGet(dict, key) == dict[CHOOSE i \in 1..Len(dict) : dict[i][1] = key][2]

\* the dimensions a row of a catalog holds, in cm
yandex_row_dims(t, r) == parse_composite_dimensions(RowGet(t, r, YANDEX_COMPOSITE))

split_dims(f1, f2, f3) ==
    IF f1.ok /\ f2.ok /\ f3.ok THEN Dims(f1.n, f2.n, f3.n) ELSE NoDims

wb_row_dims(t, r) ==
    IF \E i \in 1..3 : IsBlank(Cell(t, r, DIMENSIONS_MAPPING.wildberries[i])) THEN NoDims
    ELSE split_dims(ToFloat(Cell(t, r, WB_LENGTH)), ToFloat(Cell(t, r, WB_WIDTH)),
                    ToFloat(Cell(t, r, WB_HEIGHT)))

mm_dims(x) == IF x.ok THEN Dims(mm_to_cm(x.d[1]), mm_to_cm(x.d[2]), mm_to_cm(x.d[3])) ELSE x

ozon_row_dims(t, r) ==
    IF \E i \in 1..3 : IsBlank(Cell(t, r, DIMENSIONS_MAPPING.ozon[i])) THEN NoDims
    ELSE mm_dims(split_dims(ToFloat(Cell(t, r, OZON_LENGTH)), ToFloat(Cell(t, r, OZON_WIDTH)),
                            ToFloat(Cell(t, r, OZON_HEIGHT))))

row_dims(m, t, r) ==
    CASE m = "yandex" -> yandex_row_dims(t, r)
      [] m = "wildberries" -> wb_row_dims(t, r)
      [] OTHER -> ozon_row_dims(t, r)

\* steps 1-3 of sync_dimensions: article -> dimensions of one catalog
RECURSIVE read_dimensions(_, _, _, _)
read_dimensions(m, t, r, dict) ==
    IF r > NRows(t) THEN dict
    ELSE IF ArticleKey(t, r, ARTICLE_COLUMNS[m]) # <<>> /\ row_dims(m, t, r).ok
    THEN read_dimensions(m, t, r + 1,
                         DictPut(dict, ArticleKey(t, r, ARTICLE_COLUMNS[m]), row_dims(m, t, r).d))
    ELSE read_dimensions(m, t, r + 1, dict)

\* the first row whose identifier, as astype(str).str.strip(), is the article; 0 if none
RECURSIVE first_row(_, _, _, _)
first_row(t, article_col, article, r) ==
    IF r > NRows(t) THEN 0
    ELSE IF Strip(StrOf(Cell(t, r, article_col))) = article THEN r
    ELSE first_row(t, article_col, article, r + 1)

\* df.at[idx, col] = v, with what pandas does to the value and the column:
\* a numeric column holds floats, and takes a string only by becoming an
\* object column
Store(t, r, col, v) ==
    IF col \in t.numeric /\ v.k = "int" THEN SetCell(t, r, col, Num(v.n))
    ELSE IF col \in t.numeric /\ v.k = "str"
         THEN SetCell(Table(t.columns, t.numeric \ {col}, t.rows), r, col, v)
    ELSE SetCell(t, r, col, v)

\* a dimension synchronizer that writes without looking at the cell
fill_always(t, r, col, v) == Store(t, r, col, v)

\* if pd.isna(df.at[idx, col]) or not str(df.at[idx, col]).strip(): df.at[idx, col] = v
fill_blank(t, r, col, v) == IF IsBlank(Cell(t, r, col)) THEN Store(t, r, col, v) ELSE t

fill_three(t, r, cols, vals) ==
    fill_blank(fill_blank(fill_blank(t, r, cols[1], vals[1]), r, cols[2], vals[2]),
               r, cols[3], vals[3])

fill_row(t, r, cols, vals) == IF r = 0 THEN t ELSE fill_three(t, r, cols, vals)

\* dimensions in cm as WB takes them (floats) and as Ozon takes them (int mm)
wb_values(d) == <<Num(d[1]), Num(d[2]), Num(d[3])>>
ozon_values(d) ==
    <<PyInt(cm_to_mm(d[1]) \div 1000), PyInt(cm_to_mm(d[2]) \div 1000),
      PyInt(cm_to_mm(d[3]) \div 1000)>>

to_wb(t, article, d) ==
    fill_row(t, first_row(t, WB_ARTICLE, article, 1), DIMENSIONS_MAPPING.wildberries,
             wb_values(d))

to_ozon(t, article, d) ==
    fill_row(t, first_row(t, OZON_ARTICLE, article, 1), DIMENSIONS_MAPPING.ozon,
             ozon_values(d))

\* The tables of a run together with whether the run has raised an
\* exception that nothing catches.
Running(d) == [dfs |-> d, crashed |-> FALSE]
Crashed(d) == [dfs |-> d, crashed |-> TRUE]

\* one iteration of _sync_yandex_to_others; df[ARTICLE_COLUMNS[...]] on a
\* table without its identifier column raises KeyError
yandex_to_both(d, article, dims) ==
    IF ~HasCol(d.wildberries, WB_ARTICLE) THEN Crashed(d)
    ELSE IF ~HasCol(d.ozon, OZON_ARTICLE)
         THEN Crashed([d EXCEPT !.wildberries = to_wb(@, article, dims)])
    ELSE Running([d EXCEPT !.wildberries = to_wb(@, article, dims),
                           !.ozon = to_ozon(@, article, dims)])

\* _sync_yandex_to_others
RECURSIVE sync_yandex_to_others(_, _)
sync_yandex_to_others(st, yandex_dimensions) ==
    IF st.crashed \/ yandex_dimensions = <<>> THEN st
    ELSE sync_yandex_to_others(yandex_to_both(st.dfs, Head(yandex_dimensions)[1],
                                              Head(yandex_dimensions)[2]),
                               Tail(yandex_dimensions))

\* the write of a composite into the Yandex row r of the article;
\* df.at[idx, col] on a table without the composite column raises KeyError
composite_to_row(d, r, dims) ==
    IF r = 0 THEN Running(d)
    ELSE IF ~HasCol(d.yandex, YANDEX_COMPOSITE) THEN Crashed(d)
    ELSE Running([d EXCEPT !.yandex = fill_blank(@, r, YANDEX_COMPOSITE,
                                                 format_composite_dimensions(dims))])

to_yandex(d, article, dims, yandex_keys) ==
    IF article \in yandex_keys THEN Running(d)
    ELSE IF ~HasCol(d.yandex, YANDEX_ARTICLE) THEN Crashed(d)
    ELSE composite_to_row(d, first_row(d.yandex, YANDEX_ARTICLE, article, 1), dims)

\* _sync_wb_to_yandex
RECURSIVE sync_wb_to_yandex(_, _, _)
sync_wb_to_yandex(st, wb_dimensions, yandex_keys) ==
    IF st.crashed \/ wb_dimensions = <<>> THEN st
    ELSE sync_wb_to_yandex(to_yandex(st.dfs, Head(wb_dimensions)[1], Head(wb_dimensions)[2],
                                     yandex_keys),
                           Tail(wb_dimensions), yandex_keys)

\* the WB half of one iteration of _sync_ozon_to_others
ozon_to_wb(st, article, dims) ==
    IF st.crashed THEN st
    ELSE IF ~HasCol(st.dfs.wildberries, WB_ARTICLE) THEN Crashed(st.dfs)
    ELSE Running([st.dfs EXCEPT !.wildberries = to_wb(@, article, dims)])

\* _sync_ozon_to_others
RECURSIVE sync_ozon_to_others(_, _, _)
sync_ozon_to_others(st, ozon_dimensions, yandex_keys) ==
    IF st.crashed \/ ozon_dimensions = <<>> THEN st
    ELSE sync_ozon_to_others(
             ozon_to_wb(to_yandex(st.dfs, Head(ozon_dimensions)[1], Head(ozon_dimensions)[2],
                                  yandex_keys),
                        Head(ozon_dimensions)[1], Head(ozon_dimensions)[2]),
             Tail(ozon_dimensions), yandex_keys)

HasDimensionColumns(t, m) ==
    \A i \in 1..3 : HasCol(t, DIMENSIONS_MAPPING[m][i])

\* steps 4-6 with the Ozon step before the WB step
sync_from_ozon_first(d, yandex_dimensions, wb_dimensions, ozon_dimensions) ==
    sync_wb_to_yandex(
        sync_ozon_to_others(sync_yandex_to_others(Running(d), yandex_dimensions),
                            ozon_dimensions, DictKeys(yandex_dimensions)),
        wb_dimensions, DictKeys(yandex_dimensions))

\* steps 4-6 of sync_dimensions on the dictionaries read in steps 1-3
sync_from(d, yandex_dimensions, wb_dimensions, ozon_dimensions) ==
    sync_ozon_to_others(
        sync_wb_to_yandex(sync_yandex_to_others(Running(d), yandex_dimensions),
                          wb_dimensions, DictKeys(yandex_dimensions)),
        ozon_dimensions, DictKeys(yandex_dimensions))

\* DimensionsSynchronizer.sync_dimensions
sync_dimensions(d) ==
    IF ~HasDimensionColumns(d.wildberries, "wildberries") THEN Running(d)
    ELSE IF ~HasDimensionColumns(d.ozon, "ozon") THEN Running(d)
    ELSE sync_from(d,
                   IF HasCol(d.yandex, YANDEX_COMPOSITE)
                   THEN read_dimensions("yandex", d.yandex, 1, <<>>) ELSE <<>>,
                   read_dimensions("wildberries", d.wildberries, 1, <<>>),
                   read_dimensions("ozon", d.ozon, 1, <<>>))

(***************************************************************************)
(* A DataSynchronizer as constructed                                       *)
(***************************************************************************)
\* a correspondence set without matches
NoMatches ==
    [matches_all_three |-> <<>>, matches_1_2 |-> <<>>, matches_1_3 |-> <<>>,
     matches_2_3 |-> <<>>]
\* self.column_validations = {}
NoValidations == [m \in MP |-> <<>>]
\* ai_comparator=None
NoComparator == [present |-> FALSE, oracle |-> <<>>]
\* self.changes_log
EmptyLog == [m \in MP |-> <<>>]

(***************************************************************************)
(* Exclusion list (Config.EXCLUDED_COLUMNS, ColumnValidator)               *)
(***************************************************************************)
\* 'Цена'
EXCLUDED_1 ==
    <<"C","e","n","a">>
\* 'Цена, руб.*'
EXCLUDED_2 ==
    <<"C","e","n","a",","," ","r","u","b",".","*">>
\* 'Цена *'
EXCLUDED_3 ==
    <<"C","e","n","a"," ","*">>
\* 'Розничная цена'
EXCLUDED_4 ==
    <<"R","o","z","n","i","ch","n","a","ya"," ","c","e","n","a">>
\* 'Цена до скидки'
EXCLUDED_5 ==
    <<"C","e","n","a"," ","d","o"," ","s","k","i","d","k","i">>
\* 'Старая цена'
EXCLUDED_6 ==
    <<"S","t","a","r","a","ya"," ","c","e","n","a">>
\* 'Rich-контент JSON'
EXCLUDED_7 ==
    <<"R","i","c","h","-","k","o","n","t","e","n","t"," ","J","S","O","N">>
\* 'НДС, %*'
EXCLUDED_8 ==
    <<"N","D","S",","," ","%","*">>
\* 'Ставка НДС'
EXCLUDED_9 ==
    <<"S","t","a","v","k","a"," ","N","D","S">>

EXCLUDED_COLUMNS ==
    <<EXCLUDED_1, EXCLUDED_2, EXCLUDED_3, EXCLUDED_4, EXCLUDED_5, EXCLUDED_6,
      EXCLUDED_7, EXCLUDED_8, EXCLUDED_9>>

\* a validator for which no column is excluded
is_excluded_never(column_name) == FALSE

is_excluded_column(column_name) ==
    /\ column_name # <<>>
    /\ \E i \in 1..Len(EXCLUDED_COLUMNS) :
          Lower(Strip(EXCLUDED_COLUMNS[i])) = Lower(Strip(column_name))

(***************************************************************************)
(* Reconciliation Engine (DataSynchronizer): propagation passes            *)
(*                                                                         *)
(* The passes thread a record: the tables, the change log, the write       *)
(* decisions taken, the entries appended to ai_validation_log, the values  *)
(* sent to the Oracle, and whether an uncaught exception ended the run.    *)
(***************************************************************************)
\* the default of _log_change's source_marketplace
NoSource == "None"

\* _log_change
log_change(E, marketplace, article, column, new_value, source_marketplace) ==
    [E EXCEPT !.changes_log[marketplace] =
        Append(@, [article |-> article, column |-> column, new_value |-> new_value,
                   source |-> source_marketplace])]

\* pd.to_numeric(v, errors='coerce') of a scalar
to_numeric(v) ==
    IF v.k # "str" THEN v
    ELSE IF ~ParseFloat(v.s).ok THEN None
    ELSE IF InSeq(v.s, ".") THEN Num(ParseFloat(v.s).n)
    ELSE PyInt(ParseFloat(v.s).n \div 1000)

\* df.at[idx, col] = value_to_set; self._log_change(...)
write_value(E, marketplace, idx, article, col, value_to_set) ==
    log_change([E EXCEPT !.dfs[marketplace] = Store(@, idx, col, value_to_set)],
               marketplace, article, col, value_to_set, NoSource)

\* the write of _fill_marketplace_value: coerced when the column's dtype is numeric
set_value(E, marketplace, idx, article, col, value_to_set) ==
    write_value(E, marketplace, idx, article, col,
                IF col \in E.dfs[marketplace].numeric THEN to_numeric(value_to_set)
                ELSE value_to_set)

\* what a call of the Validation Cascade left in its log and sent to the Oracle
validated(E, out) ==
    [E EXCEPT !.log = @ \o out.log, !.asked = @ \o out.asked]

\* history of one write decision: the cell and the length of the marketplace's
\* change log right after it, log_before the length right before it
record_fill(E, marketplace, idx, article, col, converted_value, allowed, final_value, written, log_before) ==
    [E EXCEPT !.fill_trace =
        Append(@, [marketplace |-> marketplace, article |-> article, column |-> col,
                   converted |-> converted_value, allowed |-> allowed,
                   final |-> final_value, written |-> written,
                   stored |-> Cell(E.dfs[marketplace], idx, col),
                   log_before |-> log_before,
                   log_after |-> Len(E.changes_log[marketplace])])]

\* self.column_validations.get(marketplace, {}).get(col); <<>> stands for None
allowed_values_of(marketplace, col) ==
    IF col \in DOMAIN column_validations[marketplace]
    THEN column_validations[marketplace][col] ELSE <<>>

\* the decision of _fill_marketplace_value on the cascade's outcome
decide(E, marketplace, idx, article, col, converted_value, allowed, out) ==
    IF Truthy(out.result) \/ allowed = <<>>
    THEN record_fill(set_value(validated(E, out), marketplace, idx, article, col,
                               IF Truthy(out.result) THEN out.result ELSE converted_value),
                     marketplace, idx, article, col, converted_value, allowed, out.result, TRUE,
                     Len(E.changes_log[marketplace]))
    ELSE record_fill(validated(E, out), marketplace, idx, article, col, converted_value,
                     allowed, out.result, FALSE, Len(E.changes_log[marketplace]))

fill_converted(E, marketplace, idx, article, col, converted_value, allowed) ==
    decide(E, marketplace, idx, article, col, converted_value, allowed,
           validate_multiple_values(converted_value, marketplace, col, allowed,
                                    ai_comparator.present, ai_comparator.oracle))

\* DataSynchronizer._fill_marketplace_value
fill_marketplace_value(E, article, col, source_value, source_unit, target_unit, marketplace, data_map, current_value) ==
    IF ~IsBlank(current_value) THEN E
    ELSE IF article \notin DOMAIN data_map THEN E
    ELSE fill_converted(E, marketplace, data_map[article].index, article, col,
                        convert_value(source_value, source_unit, target_unit),
                        allowed_values_of(marketplace, col))

\* the last row of an article, the one _create_article_map keeps
last_row(t, article_col, article) ==
    CHOOSE r \in 1..NRows(t) :
        /\ ArticleKey(t, r, article_col) = article
        /\ \A q \in (r + 1)..NRows(t) : ArticleKey(t, q, article_col) # article

\* DataSynchronizer._create_article_map
create_article_map(t, article_col, value_col) ==
    [article \in {ArticleKey(t, r, article_col) : r \in 1..NRows(t)} \ {<<>>} |->
        [index |-> last_row(t, article_col, article),
         value |-> RowGet(t, last_row(t, article_col, article), value_col)]]

\* data.get(article, {}).get('value')
map_value(data_map, article) ==
    IF article \in DOMAIN data_map THEN data_map[article].value ELSE None

\* a source selection that looks at the catalogs in the opposite order
find_source_value_yandex_first(values, unit_wb, unit_ozon, unit_yandex) ==
    IF ~IsBlank(values.yandex) THEN [value |-> values.yandex, unit |-> unit_yandex]
    ELSE IF ~IsBlank(values.ozon) THEN [value |-> values.ozon, unit |-> unit_ozon]
    ELSE IF ~IsBlank(values.wildberries) THEN [value |-> values.wildberries, unit |-> unit_wb]
    ELSE [value |-> None, unit |-> NoUnit]

\* DataSynchronizer._find_source_value
find_source_value(values, unit_wb, unit_ozon, unit_yandex) ==
    IF ~IsBlank(values.wildberries) THEN [value |-> values.wildberries, unit |-> unit_wb]
    ELSE IF ~IsBlank(values.ozon) THEN [value |-> values.ozon, unit |-> unit_ozon]
    ELSE IF ~IsBlank(values.yandex) THEN [value |-> values.yandex, unit |-> unit_yandex]
    ELSE [value |-> None, unit |-> NoUnit]

NoComposite == [raised |-> FALSE, value |-> None]
\* float() of a cell that holds no number: ValueError
RaisedComposite == [raised |-> TRUE, value |-> None]

composite_floats(f1, f2, f3, from_mm) ==
    IF ~(f1.ok /\ f2.ok /\ f3.ok) THEN RaisedComposite
    ELSE IF from_mm
    THEN [raised |-> FALSE,
          value |-> format_composite_dimensions(<<mm_to_cm(f1.n), mm_to_cm(f2.n), mm_to_cm(f3.n)>>)]
    ELSE [raised |-> FALSE, value |-> format_composite_dimensions(<<f1.n, f2.n, f3.n>>)]

\* the composite built from the three cells of row r (0: no such row)
composite_from(t, r, cols, from_mm) ==
    IF r = 0 THEN NoComposite
    ELSE IF \E i \in 1..3 : IsNA(RowGet(t, r, cols[i])) THEN NoComposite
    ELSE composite_floats(ToFloat(RowGet(t, r, cols[1])), ToFloat(RowGet(t, r, cols[2])),
                          ToFloat(RowGet(t, r, cols[3])), from_mm)

composite_of(d, article, source_unit, unit_wb, unit_ozon) ==
    IF source_unit = unit_wb
    THEN composite_from(d.wildberries, first_row(d.wildberries, WB_ARTICLE, article, 1),
                        DIMENSIONS_MAPPING.wildberries, FALSE)
    ELSE IF source_unit = unit_ozon
    THEN composite_from(d.ozon, first_row(d.ozon, OZON_ARTICLE, article, 1),
                        DIMENSIONS_MAPPING.ozon, TRUE)
    ELSE NoComposite

composite_fill(E, idx, article, col_yandex, composite) ==
    IF composite.raised THEN [E EXCEPT !.crashed = TRUE]
    ELSE IF ~Truthy(composite.value) THEN E
    ELSE log_change([E EXCEPT !.dfs.yandex = Store(@, idx, col_yandex, composite.value)],
                    "yandex", article, col_yandex, composite.value, NoSource)

\* DataSynchronizer._fill_composite_dimensions
fill_composite_dimensions(E, article, col_yandex, source_unit, unit_wb, unit_ozon, yandex_data, current_value) ==
    IF ~IsBlank(current_value) THEN E
    ELSE IF article \notin DOMAIN yandex_data THEN E
    ELSE composite_fill(E, yandex_data[article].index, article, col_yandex,
                        composite_of(E.dfs, article, source_unit, unit_wb, unit_ozon))

\* the Yandex part of one article of _sync_three_columns
fill_yandex(E, article, cols, units, data, src) ==
    IF cols.yandex = YANDEX_COMPOSITE
    THEN fill_composite_dimensions(E, article, cols.yandex, src.unit, units.wildberries,
                                   units.ozon, data.yandex, map_value(data.yandex, article))
    ELSE fill_marketplace_value(E, article, cols.yandex, src.value, src.unit, units.yandex,
                                "yandex", data.yandex, map_value(data.yandex, article))

three_fill(E, article, cols, units, data, src) ==
    IF IsNA(src.value) THEN E
    ELSE fill_yandex(
           fill_marketplace_value(
             fill_marketplace_value(E, article, cols.wildberries, src.value, src.unit,
                                    units.wildberries, "wildberries", data.wildberries,
                                    map_value(data.wildberries, article)),
             article, cols.ozon, src.value, src.unit, units.ozon, "ozon", data.ozon,
             map_value(data.ozon, article)),
           article, cols, units, data, src)

\* the loop of _sync_three_columns over the articles, in iteration order
RECURSIVE three_articles(_, _, _, _, _, _)
three_articles(E, articles, i, cols, units, data) ==
    IF i > Len(articles) \/ E.crashed THEN E
    ELSE three_articles(
           three_fill(E, articles[i], cols, units, data,
                      find_source_value([m \in MP |-> map_value(data[m], articles[i])],
                                        units.wildberries, units.ozon, units.yandex)),
           articles, i + 1, cols, units, data)

\* the articles of the maps in the order the set iterates them
iteration(order, data) ==
    SelectSeq(order, LAMBDA a : \E m \in DOMAIN data : a \in DOMAIN data[m])

three_columns(E, cols, units, data, order) ==
    three_articles(E, iteration(order, data), 1, cols, units, data)

\* DataSynchronizer._sync_three_columns; order: the iteration order of the set
\* of articles
sync_three_columns(E, col_wb, col_ozon, col_yandex, order) ==
    three_columns(E,
        [wildberries |-> col_wb, ozon |-> col_ozon, yandex |-> col_yandex],
        [wildberries |-> detect_unit(col_wb), ozon |-> detect_unit(col_ozon),
         yandex |-> detect_unit(col_yandex)],
        [wildberries |-> create_article_map(E.dfs.wildberries, WB_ARTICLE, col_wb),
         ozon |-> create_article_map(E.dfs.ozon, OZON_ARTICLE, col_ozon),
         yandex |-> create_article_map(E.dfs.yandex, YANDEX_ARTICLE, col_yandex)],
        order)

three_match(E, col_wb, col_ozon, col_yandex, order) ==
    IF col_wb = <<>> \/ col_ozon = <<>> \/ col_yandex = <<>> THEN E
    ELSE IF \/ is_excluded_column(col_wb)
            \/ is_excluded_column(col_ozon)
            \/ is_excluded_column(col_yandex) THEN E
    ELSE IF \/ ~HasCol(E.dfs.wildberries, col_wb)
            \/ ~HasCol(E.dfs.ozon, col_ozon)
            \/ ~HasCol(E.dfs.yandex, col_yandex) THEN E
    ELSE sync_three_columns(E, col_wb, col_ozon, col_yandex, order)

\* DataSynchronizer._sync_three_way_matches
RECURSIVE sync_three_way_matches(_, _, _, _)
sync_three_way_matches(E, matches, i, order) ==
    IF i > Len(matches) \/ E.crashed THEN E
    ELSE sync_three_way_matches(
           three_match(E, matches[i].column_1, matches[i].column_2, matches[i].column_3,
                       order),
           matches, i + 1, order)

two_second(E, article, mp2, col2, unit1, unit2, data2, val1, val2) ==
    IF IsBlank(val2) /\ ~IsBlank(val1)
    THEN fill_marketplace_value(E, article, col2, val1, unit1, unit2, mp2, data2, val2)
    ELSE E

two_first(E, article, mp1, col1, unit1, unit2, data1, val1, val2) ==
    IF IsBlank(val1) /\ ~IsBlank(val2)
    THEN fill_marketplace_value(E, article, col1, val2, unit2, unit1, mp1, data1, val1)
    ELSE E

\* the loop of _sync_two_columns over the articles, in iteration order
RECURSIVE two_articles(_, _, _, _, _, _, _)
two_articles(E, articles, i, mps, cols, units, data) ==
    IF i > Len(articles) THEN E
    ELSE two_articles(
           two_second(
             two_first(E, articles[i], mps[1], cols[1], units[1], units[2], data[1],
                       map_value(data[1], articles[i]), map_value(data[2], articles[i])),
             articles[i], mps[2], cols[2], units[1], units[2], data[2],
             map_value(data[1], articles[i]), map_value(data[2], articles[i])),
           articles, i + 1, mps, cols, units, data)

two_columns(E, mps, cols, units, data, order) ==
    two_articles(E, iteration(order, data), 1, mps, cols, units, data)

\* DataSynchronizer._sync_two_columns
sync_two_columns(E, mp1, mp2, col1, col2, order) ==
    two_columns(E, <<mp1, mp2>>, <<col1, col2>>,
                <<detect_unit(col1), detect_unit(col2)>>,
                <<create_article_map(E.dfs[mp1], ARTICLE_COLUMNS[mp1], col1),
                  create_article_map(E.dfs[mp2], ARTICLE_COLUMNS[mp2], col2)>>,
                order)

two_match(E, mp1, mp2, col1, col2, order) ==
    IF col1 = <<>> \/ col2 = <<>> THEN E
    ELSE IF is_excluded_column(col1) \/ is_excluded_column(col2) THEN E
    ELSE IF ~HasCol(E.dfs[mp1], col1) \/ ~HasCol(E.dfs[mp2], col2) THEN E
    ELSE sync_two_columns(E, mp1, mp2, col1, col2, order)

\* the pairs of _sync_two_way_matches
PAIRS ==
    << [match_key |-> "matches_1_2", mp1 |-> "wildberries", mp2 |-> "ozon",
        col_key1 |-> "column_1", col_key2 |-> "column_2"],
       [match_key |-> "matches_1_3", mp1 |-> "wildberries", mp2 |-> "yandex",
        col_key1 |-> "column_1", col_key2 |-> "column_3"],
       [match_key |-> "matches_2_3", mp1 |-> "ozon", mp2 |-> "yandex",
        col_key1 |-> "column_2", col_key2 |-> "column_3"] >>

\* the matches of one pair
RECURSIVE pair_matches(_, _, _, _, _)
pair_matches(E, pair, matches, i, order) ==
    IF i > Len(matches) THEN E
    ELSE pair_matches(
           two_match(E, pair.mp1, pair.mp2, matches[i][pair.col_key1],
                     matches[i][pair.col_key2], order),
           pair, matches, i + 1, order)

\* DataSynchronizer._sync_two_way_matches
RECURSIVE sync_two_way_matches(_, _, _)
sync_two_way_matches(E, p, order) ==
    IF p > Len(PAIRS) \/ E.crashed THEN E
    ELSE sync_two_way_matches(
           pair_matches(E, PAIRS[p], comparison_result[PAIRS[p].match_key], 1, order),
           p + 1, order)

\* DataSynchronizer._sync_all_matches
sync_all_matches(E, order) ==
    sync_two_way_matches(
        sync_three_way_matches(E, comparison_result.matches_all_three, 1, order),
        1, order)

\* one cell of _postprocess_wb_dimensions; f is float(value)
postprocess_cell(t, r, col, f) ==
    IF f.ok /\ f.n > 100 * 1000 THEN Store(t, r, col, Num(mm_to_cm(f.n))) ELSE t

RECURSIVE postprocess_column(_, _, _)
postprocess_column(t, col, r) ==
    IF r > NRows(t) THEN t
    ELSE postprocess_column(
           IF IsNA(Cell(t, r, col)) THEN t
           ELSE postprocess_cell(t, r, col, ToFloat(Cell(t, r, col))),
           col, r + 1)

RECURSIVE postprocess_columns(_, _, _)
postprocess_columns(t, cols, c) ==
    IF c > Len(cols) THEN t
    ELSE postprocess_columns(
           IF HasCol(t, cols[c]) THEN postprocess_column(t, cols[c], 1) ELSE t,
           cols, c + 1)

\* DataSynchronizer._postprocess_wb_dimensions
postprocess_wb_dimensions(d) ==
    [d EXCEPT !.wildberries = postprocess_columns(@, DIMENSIONS_MAPPING.wildberries, 1)]

(***************************************************************************)
(* Column Matching Engine (AIComparator.compare_columns)                   *)
(***************************************************************************)
\* 'Вес с упаковкой (кг)'
WB_WEIGHT ==
    <<"V","e","s"," ","s"," ","u","p","a","k","o","v","k","o","j"," ","(","k","g",")">>
\* 'Вес в упаковке, г*'
OZON_WEIGHT ==
    <<"V","e","s"," ","v"," ","u","p","a","k","o","v","k","e",","," ","g","*">>
\* 'Вес с упаковкой, кг'
YANDEX_WEIGHT ==
    <<"V","e","s"," ","s"," ","u","p","a","k","o","v","k","o","j",","," ","k","g">>

\* a match of a correspondence set, as the Oracle returns it; <<>> stands for
\* a missing column, the confidence is in hundredths
Match(c1, c2, c3) ==
    [column_1 |-> c1, column_2 |-> c2, column_3 |-> c3, confidence |-> 95,
     mandatory |-> FALSE]

\* a match inserted by _add_mandatory_matches
MandatoryMatch(c1, c2, c3) ==
    [column_1 |-> c1, column_2 |-> c2, column_3 |-> c3, confidence |-> 100,
     mandatory |-> TRUE]

Template(c1, c2, c3) == [column_1 |-> c1, column_2 |-> c2, column_3 |-> c3]

MANDATORY_MATCHES ==
    << Template(WB_ARTICLE, OZON_ARTICLE, YANDEX_ARTICLE),
       \* 'Баркоды' / 'Штрихкод (Серийный номер / EAN)' / 'Штрихкод *'
       Template(
         <<"B","a","r","k","o","d","y">>,
         <<"SH","t","r","i","h","k","o","d"," ","(","S","e","r","i","j","n","y","j"," ",
           "n","o","m","e","r"," ","/"," ","E","A","N",")">>,
         <<"SH","t","r","i","h","k","o","d"," ","*">>),
       \* 'Бренд' / 'Бренд*' / 'Бренд *'
       Template(
         <<"B","r","e","n","d">>,
         <<"B","r","e","n","d","*">>,
         <<"B","r","e","n","d"," ","*">>),
       \* 'Наименование' / 'Название товара' / 'Название товара *'
       Template(
         <<"N","a","i","m","e","n","o","v","a","n","i","e">>,
         <<"N","a","z","v","a","n","i","e"," ","t","o","v","a","r","a">>,
         <<"N","a","z","v","a","n","i","e"," ","t","o","v","a","r","a"," ","*">>),
       \* 'Описание' / 'Аннотация' / 'Описание товара *'
       Template(
         <<"O","p","i","s","a","n","i","e">>,
         <<"A","n","n","o","t","a","c","i","ya">>,
         <<"O","p","i","s","a","n","i","e"," ","t","o","v","a","r","a"," ","*">>),
       Template(WB_WEIGHT, OZON_WEIGHT, YANDEX_WEIGHT),
       \* 'Фото' / 'Ссылки на дополнительные фото' / 'Ссылка на изображение *'
       Template(
         <<"F","o","t","o">>,
         <<"S","s","y","l","k","i"," ","n","a"," ","d","o","p","o","l","n","i","t","e",
           "l","mz","n","y","e"," ","f","o","t","o">>,
         <<"S","s","y","l","k","a"," ","n","a"," ","i","z","o","b","r","a","zh","e","n",
           "i","e"," ","*">>) >>

\* the first column from position i on that contains search_lower, <<>> if none
RECURSIVE first_containing(_, _, _)
first_containing(columns, search_lower, i) ==
    IF i > Len(columns) THEN <<>>
    ELSE IF Contains(Lower(columns[i]), search_lower) THEN columns[i]
    ELSE first_containing(columns, search_lower, i + 1)

\* ExcelReader.find_column_fuzzy; <<>> stands for None
find_column_fuzzy(columns, search_term) ==
    IF search_term = <<>> THEN <<>>
    ELSE IF InSeq(columns, search_term) THEN search_term
    ELSE first_containing(columns, Lower(search_term), 1)

\* AIComparator._filter_excluded_columns
filter_excluded_columns(columns) ==
    [allowed  |-> SelectSeq(columns, LAMBDA col : ~is_excluded_column(col)),
     excluded |-> SelectSeq(columns, LAMBDA col : is_excluded_column(col))]

\* a response of the Oracle as _parse_response leaves it: the parsed
\* dictionary, or the ValueError of a response with no JSON in it;
\* unique_lists: the dictionary has the three only_in_* lists
ParseError == [ok |-> FALSE]
Parsed(all_three, m_1_2, m_1_3, m_2_3, first, second, third, unique_lists) ==
    [ok |-> TRUE,
     result |-> [matches_all_three |-> all_three, matches_1_2 |-> m_1_2,
                 matches_1_3 |-> m_1_3, matches_2_3 |-> m_2_3,
                 only_in_first |-> first, only_in_second |-> second,
                 only_in_third |-> third, unique_lists |-> unique_lists]]

\* any(m.get(key) == col ...) of _add_mandatory_matches
consumed(matches, col_1, col_2, col_3) ==
    \E i \in 1..Len(matches) :
        \/ col_1 # <<>> /\ matches[i].column_1 = col_1
        \/ col_2 # <<>> /\ matches[i].column_2 = col_2
        \/ col_3 # <<>> /\ matches[i].column_3 = col_3

\* an injection that appends the mandatory match to its bucket
add_mandatory_appended(result, col_1, col_2, col_3) ==
    IF col_1 # <<>> /\ col_2 # <<>> /\ col_3 # <<>>
    THEN IF consumed(result.matches_all_three, col_1, col_2, col_3) THEN result
         ELSE [result EXCEPT !.matches_all_three =
                  @ \o <<MandatoryMatch(col_1, col_2, col_3)>>]
    ELSE IF col_1 # <<>> /\ col_2 # <<>>
    THEN IF consumed(result.matches_1_2, col_1, col_2, <<>>) THEN result
         ELSE [result EXCEPT !.matches_1_2 = @ \o <<MandatoryMatch(col_1, col_2, <<>>)>>]
    ELSE IF col_1 # <<>> /\ col_3 # <<>>
    THEN IF consumed(result.matches_1_3, col_1, <<>>, col_3) THEN result
         ELSE [result EXCEPT !.matches_1_3 = @ \o <<MandatoryMatch(col_1, <<>>, col_3)>>]
    ELSE IF col_2 # <<>> /\ col_3 # <<>>
    THEN IF consumed(result.matches_2_3, <<>>, col_2, col_3) THEN result
         ELSE [result EXCEPT !.matches_2_3 = @ \o <<MandatoryMatch(<<>>, col_2, col_3)>>]
    ELSE result

\* one template of _add_mandatory_matches, its labels resolved
add_mandatory(result, col_1, col_2, col_3) ==
    IF col_1 # <<>> /\ col_2 # <<>> /\ col_3 # <<>>
    THEN IF consumed(result.matches_all_three, col_1, col_2, col_3) THEN result
         ELSE [result EXCEPT !.matches_all_three =
                  <<MandatoryMatch(col_1, col_2, col_3)>> \o @]
    ELSE IF col_1 # <<>> /\ col_2 # <<>>
    THEN IF consumed(result.matches_1_2, col_1, col_2, <<>>) THEN result
         ELSE [result EXCEPT !.matches_1_2 = <<MandatoryMatch(col_1, col_2, <<>>)>> \o @]
    ELSE IF col_1 # <<>> /\ col_3 # <<>>
    THEN IF consumed(result.matches_1_3, col_1, <<>>, col_3) THEN result
         ELSE [result EXCEPT !.matches_1_3 = <<MandatoryMatch(col_1, <<>>, col_3)>> \o @]
    ELSE IF col_2 # <<>> /\ col_3 # <<>>
    THEN IF consumed(result.matches_2_3, <<>>, col_2, col_3) THEN result
         ELSE [result EXCEPT !.matches_2_3 = <<MandatoryMatch(<<>>, col_2, col_3)>> \o @]
    ELSE result

\* AIComparator._add_mandatory_matches, from template i on
RECURSIVE add_mandatory_matches(_, _, _, _, _)
add_mandatory_matches(result, columns_1, columns_2, columns_3, i) ==
    IF i > Len(MANDATORY_MATCHES) THEN result
    ELSE add_mandatory_matches(
           add_mandatory(result,
                         find_column_fuzzy(columns_1, MANDATORY_MATCHES[i].column_1),
                         find_column_fuzzy(columns_2, MANDATORY_MATCHES[i].column_2),
                         find_column_fuzzy(columns_3, MANDATORY_MATCHES[i].column_3)),
           columns_1, columns_2, columns_3, i + 1)

\* the columns of one catalog that no three-way match holds under `key`
remaining_of(matches, columns, key) ==
    SelectSeq(columns,
              LAMBDA col : col # <<>> /\ ~\E i \in 1..Len(matches) : matches[i][key] = col)

\* remaining columns that also leave out the columns of the two-way matches
get_remaining_columns_unmatched(result, columns_1, columns_2, columns_3) ==
    <<remaining_of(result.matches_all_three \o result.matches_1_2 \o result.matches_1_3,
                   columns_1, "column_1"),
      remaining_of(result.matches_all_three \o result.matches_1_2 \o result.matches_2_3,
                   columns_2, "column_2"),
      remaining_of(result.matches_all_three \o result.matches_1_3 \o result.matches_2_3,
                   columns_3, "column_3")>>

\* AIComparator._get_remaining_columns
get_remaining_columns(result, columns_1, columns_2, columns_3) ==
    <<remaining_of(result.matches_all_three, columns_1, "column_1"),
      remaining_of(result.matches_all_three, columns_2, "column_2"),
      remaining_of(result.matches_all_three, columns_3, "column_3")>>

\* AIComparator._merge_results
merge_results(first_result, second_result) ==
    [matches_all_three |-> first_result.matches_all_three \o second_result.matches_all_three,
     matches_1_2 |-> first_result.matches_1_2 \o second_result.matches_1_2,
     matches_1_3 |-> first_result.matches_1_3 \o second_result.matches_1_3,
     matches_2_3 |-> first_result.matches_2_3 \o second_result.matches_2_3,
     only_in_first |-> second_result.only_in_first,
     only_in_second |-> second_result.only_in_second,
     only_in_third |-> second_result.only_in_third,
     unique_lists |-> TRUE]

\* compare_columns ended by an exception
CompareRaised == [raised |-> TRUE, result |-> NoMatches]

\* AIComparator._add_excluded_to_result; result['only_in_first'] of a
\* dictionary without that key is a KeyError
add_excluded_to_result(result, excluded_1, excluded_2, excluded_3) ==
    IF ~result.unique_lists THEN CompareRaised
    ELSE [raised |-> FALSE,
          result |-> [result EXCEPT !.only_in_first = @ \o excluded_1,
                                    !.only_in_second = @ \o excluded_2,
                                    !.only_in_third = @ \o excluded_3]]

\* compare_columns from the second pass on
second_pass(result, remaining_columns, f1, f2, f3, second) ==
    IF remaining_columns[1] = <<>> /\ remaining_columns[2] = <<>> /\ remaining_columns[3] = <<>>
    THEN add_excluded_to_result(result, f1.excluded, f2.excluded, f3.excluded)
    ELSE IF ~second.ok THEN CompareRaised
    ELSE add_excluded_to_result(merge_results(result, second.result),
                                f1.excluded, f2.excluded, f3.excluded)

after_first_pass(result, f1, f2, f3, second) ==
    second_pass(result, get_remaining_columns(result, f1.allowed, f2.allowed, f3.allowed),
                f1, f2, f3, second)

\* a first pass that takes an unparseable response for an empty dictionary
first_pass_lenient(f1, f2, f3, first, second) ==
    after_first_pass(
        add_mandatory_matches(IF first.ok THEN first.result ELSE NoMatches,
                              f1.allowed, f2.allowed, f3.allowed, 1),
        f1, f2, f3, second)

first_pass(f1, f2, f3, first, second) ==
    IF ~first.ok THEN CompareRaised
    ELSE after_first_pass(
           add_mandatory_matches(first.result, f1.allowed, f2.allowed, f3.allowed, 1),
           f1, f2, f3, second)

\* the label lists of the prompts compare_columns sends: _build_prompt on the
\* filtered lists, and _second_pass_comparison on the remaining columns when
\* there are any; a first response that cannot be parsed ends the call
second_prompt(remaining_columns) ==
    IF remaining_columns[1] = <<>> /\ remaining_columns[2] = <<>> /\ remaining_columns[3] = <<>>
    THEN <<>> ELSE <<remaining_columns>>

prompts_sent(f1, f2, f3, first) ==
    <<<<f1.allowed, f2.allowed, f3.allowed>>>> \o
    (IF ~first.ok THEN <<>>
     ELSE second_prompt(
            get_remaining_columns(
               add_mandatory_matches(first.result, f1.allowed, f2.allowed, f3.allowed, 1),
               f1.allowed, f2.allowed, f3.allowed)))

\* AIComparator.compare_columns; first and second: what the Oracle answers to
\* the first and to the second prompt
compare_columns(columns_1, columns_2, columns_3, first, second) ==
    first_pass(filter_excluded_columns(columns_1), filter_excluded_columns(columns_2),
               filter_excluded_columns(columns_3), first, second)

(***************************************************************************)
(* Loading: duplicate column labels                                        *)
(***************************************************************************)
RECURSIVE handle_duplicates_from(_, _, _, _)
\* the loop of _handle_duplicate_columns from index i on; seen and
\* renamed_columns are dictionaries, kept as lists of pairs
handle_duplicates_from(hdrs, i, seen, renamed_columns) ==
    IF i > Len(hdrs) THEN [headers |-> hdrs, renamed |-> renamed_columns]
    ELSE IF hdrs[i] \in DictKeys(seen)
    THEN handle_duplicates_from(
            [hdrs EXCEPT ![i] = @ \o NatDigits(DictGet(seen, hdrs[i]) + 1)],
            i + 1,
            DictPut(seen, hdrs[i], DictGet(seen, hdrs[i]) + 1),
            DictPut(renamed_columns, hdrs[i] \o NatDigits(DictGet(seen, hdrs[i]) + 1),
                    hdrs[i]))
    ELSE handle_duplicates_from(hdrs, i + 1, DictPut(seen, hdrs[i], 0), renamed_columns)

\* DataSynchronizer._handle_duplicate_columns: the returned list and the
\* dictionary `renamed` kept in original_column_names
handle_duplicate_columns(hdrs) == handle_duplicates_from(hdrs, 1, <<>>, <<>>)

(***************************************************************************)
(* Database: the tables schemas and schema_matches                         *)
(***************************************************************************)
\* confidences are kept in hundredths: 85 stands for 0.85
CONFIDENCE_THRESHOLD == 85

\* return None of create_schema
NoSchemaId == 0

Db(s, m, q) == [schemas |-> s, schema_matches |-> m, seq |-> q]

\* sqlite keeps a Python bool as an integer
sql_bool(b) == IF b THEN 1 ELSE 0

\* UNIQUE(user_id, schema_name)
schema_exists(D, user_id, schema_name) ==
    \E i \in 1..Len(D.schemas) :
        D.schemas[i].user_id = user_id /\ D.schemas[i].schema_name = schema_name

\* create_schema on a table without the UNIQUE constraint
create_schema_unchecked(D, user_id, schema_name) ==
    [db |-> [D EXCEPT !.schemas = Append(@, [id |-> D.seq + 1, user_id |-> user_id,
                                             schema_name |-> schema_name]),
                      !.seq = @ + 1],
     schema_id |-> D.seq + 1]

\* Database.create_schema: the INSERT, or None on sqlite3.IntegrityError
create_schema(D, user_id, schema_name) ==
    IF schema_exists(D, user_id, schema_name)
    THEN [db |-> D, schema_id |-> NoSchemaId]
    ELSE [db |-> [D EXCEPT !.schemas = Append(@, [id |-> D.seq + 1, user_id |-> user_id,
                                                   schema_name |-> schema_name]),
                           !.seq = @ + 1],
          schema_id |-> D.seq + 1]

\* Database.get_schema: the id of the owner's schema of that name
get_schema(D, user_id, schema_name) ==
    IF ~schema_exists(D, user_id, schema_name) THEN NoSchemaId
    ELSE (CHOOSE r \in SeqToSet(D.schemas) :
              r.user_id = user_id /\ r.schema_name = schema_name).id

\* Database.delete_schema; the connection does not enable foreign keys, so
\* ON DELETE CASCADE does not remove the schema's rows of schema_matches
delete_schema(D, user_id, schema_name) ==
    LET Other(r) == ~(r.user_id = user_id /\ r.schema_name = schema_name)
    IN  [db |-> [D EXCEPT !.schemas = SelectSeq(D.schemas, Other)],
         deleted |-> schema_exists(D, user_id, schema_name)]

\* the row inserted for a match
match_row(schema_id, match) ==
    [schema_id |-> schema_id, wb_column |-> match.column_1, ozon_column |-> match.column_2,
     yandex_column |-> match.column_3, confidence |-> match.confidence,
     is_mandatory |-> sql_bool(match.mandatory)]

RECURSIVE rows_to_save(_, _, _)
rows_to_save(schema_id, matches, i) ==
    IF i > Len(matches) THEN <<>>
    ELSE (IF matches[i].confidence >= CONFIDENCE_THRESHOLD
          THEN <<match_row(schema_id, matches[i])>> ELSE <<>>)
         \o rows_to_save(schema_id, matches, i + 1)

\* Database.save_schema_matches: only matches_all_three is read
save_schema_matches(D, schema_id, result) ==
    LET Others(r) == r.schema_id # schema_id
        rows == rows_to_save(schema_id, result.matches_all_three, 1)
    IN  [db |-> [D EXCEPT !.schema_matches = SelectSeq(D.schema_matches, Others) \o rows],
         saved_count |-> Len(rows),
         skipped_count |-> Len(result.matches_all_three) - Len(rows)]

\* the match built from a row
row_match(row) ==
    [column_1 |-> row.wb_column, column_2 |-> row.ozon_column, column_3 |-> row.yandex_column,
     confidence |-> row.confidence, mandatory |-> row.is_mandatory]

RECURSIVE rows_to_matches(_, _)
rows_to_matches(rows, i) ==
    IF i > Len(rows) THEN <<>> ELSE <<row_match(rows[i])>> \o rows_to_matches(rows, i + 1)

\* Database.get_schema_matches
get_schema_matches(D, schema_id) ==
    LET Mine(r) == r.schema_id = schema_id
    IN  [matches_all_three |-> rows_to_matches(SelectSeq(D.schema_matches, Mine), 1),
         matches_1_2 |-> <<>>, matches_1_3 |-> <<>>, matches_2_3 |-> <<>>,
         only_in_first |-> <<>>, only_in_second |-> <<>>, only_in_third |-> <<>>]

(***************************************************************************)
(* Bot handlers: schema creation                                           *)
(***************************************************************************)
RECURSIVE filtered_matches_strict(_, _)
filtered_matches_strict(matches, i) ==
    IF i > Len(matches) THEN <<>>
    ELSE (IF matches[i].confidence > CONFIDENCE_THRESHOLD THEN <<matches[i]>> ELSE <<>>)
         \o filtered_matches_strict(matches, i + 1)

RECURSIVE filtered_matches(_, _)
\* [match for match in ... if match.get('confidence', 0) >= 0.85]
filtered_matches(matches, i) ==
    IF i > Len(matches) THEN <<>>
    ELSE (IF matches[i].confidence >= CONFIDENCE_THRESHOLD THEN <<matches[i]>> ELSE <<>>)
         \o filtered_matches(matches, i + 1)

\* what the handler leaves behind: the tables, its answer to the user, and
\* the correspondence set it held
Finalized(D, answer, schema_id, returned, matches_count, skipped_count) ==
    [db |-> D, answer |-> answer, schema_id |-> schema_id, returned |-> returned,
     matches_count |-> matches_count, skipped_count |-> skipped_count]

\* finalize_schema_creation from create_schema on
store_schema(D, user_id, schema_name, result, total_matches, created) ==
    IF created.schema_id = NoSchemaId
    THEN Finalized(D, "exists", NoSchemaId, result,
                   Len(result.matches_all_three),
                   total_matches - Len(result.matches_all_three))
    ELSE Finalized(save_schema_matches(created.db, created.schema_id, result).db,
                   "created", created.schema_id, result,
                   Len(result.matches_all_three),
                   total_matches - Len(result.matches_all_three))

\* finalize_schema_creation; out: what compare_columns returned or raised
finalize_schema_creation(D, user_id, schema_name, out) ==
    IF out.raised THEN Finalized(D, "error", NoSchemaId, NoMatches, 0, 0)
    ELSE store_schema(D, user_id, schema_name,
                      [out.result EXCEPT !.matches_all_three = filtered_matches(@, 1)],
                      Len(out.result.matches_all_three),
                      create_schema(D, user_id, schema_name))

(***************************************************************************)
(* Bot handlers: incremental schema update                                 *)
(***************************************************************************)
\* a stored match as the handler holds it: sqlite returns is_mandatory as 0
\* or 1, which is stored again as the same integer
read_back(match) == [match EXCEPT !.mandatory = (@ = 1)]

RECURSIVE existing_matches_of(_, _)
existing_matches_of(matches, i) ==
    IF i > Len(matches) THEN <<>>
    ELSE <<read_back(matches[i])>> \o existing_matches_of(matches, i + 1)

\* matched_wb, matched_ozon, matched_yandex: if match.get(key): add
matched_columns(matches, key) ==
    { matches[i][key] : i \in { j \in 1..Len(matches) : matches[j][key] # <<>> } }

\* [col for col in all_columns[marketplace] if col not in matched]
uncovered_columns(columns, matched) ==
    SelectSeq(columns, LAMBDA col : col \notin matched)

update_remaining_columns(existing, all_columns) ==
    << uncovered_columns(all_columns[1], matched_columns(existing, "column_1")),
       uncovered_columns(all_columns[2], matched_columns(existing, "column_2")),
       uncovered_columns(all_columns[3], matched_columns(existing, "column_3")) >>

\* key == existing_key
same_key(match, existing) ==
    /\ match.column_1 = existing.column_1
    /\ match.column_2 = existing.column_2
    /\ match.column_3 = existing.column_3

RECURSIVE add_new_matches_unkeyed(_, _, _)
\* the loop without the comparison of keys
add_new_matches_unkeyed(existing, new, i) ==
    IF i > Len(new) THEN existing
    ELSE IF new[i].confidence < CONFIDENCE_THRESHOLD
         THEN add_new_matches_unkeyed(existing, new, i + 1)
    ELSE add_new_matches_unkeyed(Append(existing, new[i]), new, i + 1)

RECURSIVE add_new_matches(_, _, _)
\* the loop over new_comparison_result['matches_all_three']; the list the
\* keys are compared with grows with every match added
add_new_matches(existing, new, i) ==
    IF i > Len(new) THEN existing
    ELSE IF new[i].confidence < CONFIDENCE_THRESHOLD
         THEN add_new_matches(existing, new, i + 1)
    ELSE IF \E j \in 1..Len(existing) : same_key(new[i], existing[j])
         THEN add_new_matches(existing, new, i + 1)
    ELSE add_new_matches(Append(existing, new[i]), new, i + 1)

\* what the handler leaves behind: the tables, its answer, the label lists
\* handed to compare_columns (none when it was not called), new_count
Updated(D, answer, passed, new_count) ==
    [db |-> D, answer |-> answer, passed |-> passed, new_count |-> new_count]

\* finalize_schema_update after compare_columns returned
store_update(D, schema_id, existing, remaining, updated) ==
    IF Len(updated) = Len(existing)
    THEN Updated(D, "nothing new", <<remaining>>, 0)
    ELSE Updated(save_schema_matches(D, schema_id,
                                     [NoMatches EXCEPT !.matches_all_three = updated]).db,
                 "updated", <<remaining>>, Len(updated) - Len(existing))

\* finalize_schema_update from total_remaining on; out: what compare_columns
\* returns or raises on the remaining columns
update_from_remaining(D, schema_id, existing, remaining, out) ==
    IF Len(remaining[1]) + Len(remaining[2]) + Len(remaining[3]) = 0
    THEN Updated(D, "covered", <<>>, 0)
    ELSE IF out.raised THEN Updated(D, "error", <<remaining>>, 0)
    ELSE store_update(D, schema_id, existing, remaining,
                      add_new_matches(existing, out.result.matches_all_three, 1))

update_of_existing(D, schema_id, existing, remaining, first, second) ==
    update_from_remaining(D, schema_id, existing, remaining,
        compare_columns(remaining[1], remaining[2], remaining[3], first, second))

\* finalize_schema_update; all_columns: the labels of the three uploaded
\* files, first and second: the Oracle's answers
finalize_schema_update(D, schema_id, existing, all_columns, first, second) ==
    update_of_existing(D, schema_id, existing,
                       update_remaining_columns(existing, all_columns), first, second)

(***************************************************************************)
(* Step of synchronize_data: row alignment                                 *)
(***************************************************************************)
NoCall == [op |-> "none"]
NoOutcome == [done |-> FALSE]

\* no direct call of the Validation Cascade is under way
ValIdle ==
    /\ ai_validation_log = <<>>
    /\ ai_requests = <<>>
    /\ v_call = NoCall
    /\ v_out = NoOutcome

EmptyTable == Table(<<>>, {}, <<>>)

\* a DataSynchronizer with no correspondences, no allow-lists and no Oracle
EngIdle ==
    /\ comparison_result = NoMatches
    /\ column_validations = NoValidations
    /\ ai_comparator = NoComparator
    /\ changes_log = EmptyLog
    /\ fill_trace = <<>>
    /\ run = 1
    /\ ai_call = NoCall

\* nothing outside the synchronizer is under way
DbIdle ==
    /\ schemas = <<>>
    /\ schema_matches = <<>>
    /\ schema_seq = 0
    /\ creation = NoCall
    /\ loaded_schema_id = NoSchemaId

\* no run of process_files was started
ProcIdle ==
    /\ processing = [status |-> "none", progress |-> 0, can_cancel |-> 1,
                     error_message |-> "", synced_cells_count |-> 0]
    /\ proc_pc = "idle"
    /\ sync_task = [state |-> "none"]
    /\ sent = <<>>
    /\ cancelled_at = "never"

\* no header row was read
LoadIdle ==
    /\ header_row = <<>>
    /\ headers = NoOutcome

AppIdle ==
    /\ composite_in = None
    /\ composite_out = NoOutcome
    /\ DbIdle
    /\ ProcIdle
    /\ LoadIdle

\* no synchronization run is under way
SyncIdle ==
    /\ dfs = [m \in MP |-> EmptyTable]
    /\ dfs_loaded = dfs
    /\ dfs_before = dfs
    /\ pc = "idle"
    /\ EngIdle

\* the dtypes after pd.concat with the placeholder rows, whose columns are
\* all None: the numeric columns stay numeric (their ints become floats), or,
\* with a pandas that counts all-NA columns in, turn into object columns
concat_dtypes(before, after, keeps_dtypes) ==
    IF NRows(after) = NRows(before) THEN after
    ELSE IF keeps_dtypes
    THEN Table(after.columns, after.numeric,
               AsFloats(after.columns, after.numeric, after.rows))
    ELSE Table(after.columns, {}, after.rows)

aligned_frames(before, after, keeps_dtypes) ==
    [m \in MP |-> concat_dtypes(before[m], after[m], keeps_dtypes)]

AlignArticles ==
    /\ pc = "loaded"
    /\ dfs_before' = dfs
    /\ \E keeps_dtypes \in BOOLEAN :
         dfs' = aligned_frames(dfs, align_articles(dfs), keeps_dtypes)
    /\ pc' = "aligned"
    /\ UNCHANGED <<dfs_loaded, valVars, engVars, appVars>>

(***************************************************************************)
(* SpecAlign: the Row Aligner on bounded identifier columns                *)
(***************************************************************************)
\* 'Пример: A1' - an instructional cell
InstructionalCell == <<"P","r","i","m","e","r",":"," ","A","1">>
LongCell == [i \in 1..MaxArticleLen |-> "X"]

ArticleInputs ==
    { None,
      Str(<<"A","1">>),
      Str(<<" ","A","1"," ">>),
      Str(<<"B","2">>),
      Str(InstructionalCell),
      Str(LongCell) }

\* a data column next to the identifier, to tell the rows apart
DataCol == <<"D","a","t","a">>

AlignTable(m, arts, from, to) ==
    Table(<<ARTICLE_COLUMNS[m], DataCol>>, {},
          [i \in 1..(to - from) |-> <<arts[from + i], Str(<<"r", Digits[from + i + 1]>>)>>])

InitAlign ==
    \E k \in 0..MaxRowsTotal :
      \E arts \in [1..k -> ArticleInputs] :
        \E i \in 0..k :
          \E j \in i..k :
            /\ dfs = [wildberries |-> AlignTable("wildberries", arts, 0, i),
                      ozon        |-> AlignTable("ozon", arts, i, j),
                      yandex      |-> AlignTable("yandex", arts, j, k)]
            /\ dfs_loaded = dfs
            /\ dfs_before = dfs
            /\ pc = "loaded"
            /\ ValIdle
            /\ EngIdle
            /\ AppIdle

SpecAlign == InitAlign /\ [][AlignArticles]_vars

SyncDimensions ==
    /\ pc = "aligned"
    /\ dfs_before' = dfs
    /\ dfs' = sync_dimensions(dfs).dfs
    /\ pc' = IF sync_dimensions(dfs).crashed THEN "crashed" ELSE "dims"
    /\ UNCHANGED <<dfs_loaded, valVars, engVars, appVars>>

(***************************************************************************)
(* SpecDim: sync_dimensions on bounded tables                              *)
(***************************************************************************)
\* 'Материал'
WB_MATERIAL ==
    <<"M","a","t","e","r","i","a","l">>
\* 'Материал*'
OZON_MATERIAL ==
    <<"M","a","t","e","r","i","a","l","*">>
\* 'Материал *'
YANDEX_MATERIAL ==
    <<"M","a","t","e","r","i","a","l"," ","*">>

MATERIAL_COLUMNS ==
    [wildberries |-> WB_MATERIAL, ozon |-> OZON_MATERIAL, yandex |-> YANDEX_MATERIAL]

A1 == <<"A","1">>
B2 == <<"B","2">>

\* what the dimension cells of one row hold
DimPatterns ==
    [wildberries |->
        << <<Num(12000), Num(8000), Num(150000)>>,
           <<Num(12000), None, None>>,
           <<Str(<<"7",".","5">>), PyInt(8), PyInt(5)>>,
           <<Str(<<" ">>), Num(8000), Num(5000)>>,
           <<Str(<<"a","b","c">>), Num(8000), Num(5000)>> >>,
     ozon |->
        << <<PyInt(1205), PyInt(800), PyInt(500)>>,
           <<None, PyInt(800), None>>,
           <<Str(<<"1","2","0","5">>), Num(800000), Num(500000)>>,
           <<Str(<<" ">>), PyInt(800), PyInt(500)>>,
           <<PyInt(90), PyInt(80), Str(<<"a","b","c">>)>> >>,
     yandex |->
        << <<Str(<<"7","1","/","6","8","/","1","9","7">>)>>,
           <<Str(<<" ","7",".","5"," ","/"," ","8","/","5"," ">>)>>,
           <<Str(<<" ">>)>>,
           <<Str(<<"7","1","/","6","8">>)>>,
           <<Str(<<"7","1","/","0","/","5">>)>> >>]

NPatterns == Len(DimPatterns.wildberries)

\* the identifier cells of the rows of each catalog
ArticleLayouts ==
    { [wildberries |-> <<Str(A1), Str(B2)>>, ozon |-> <<Str(A1), Str(B2)>>,
       yandex |-> <<Str(A1), Str(B2)>>],
      [wildberries |-> <<Str(A1), Str(A1)>>, ozon |-> <<Str(<<" ">> \o A1 \o <<" ">>), Str(B2)>>,
       yandex |-> <<Str(B2), Str(A1)>>],
      [wildberries |-> <<Str(A1), None>>, ozon |-> <<Str(B2)>>, yandex |-> <<Str(A1), Str(B2)>>] }

\* which columns the tables have
ColumnLayouts == {"full", "wb_no_height", "ozon_no_length", "yandex_no_composite"}

DimColumnsOf(m, layout) ==
    CASE m = "wildberries" /\ layout = "wb_no_height" -> <<WB_LENGTH, WB_WIDTH>>
      [] m = "ozon" /\ layout = "ozon_no_length" -> <<OZON_WIDTH, OZON_HEIGHT>>
      [] m = "yandex" /\ layout = "yandex_no_composite" -> <<>>
      [] OTHER -> DIMENSIONS_MAPPING[m]

\* the value of dimension column col of catalog m under pattern number k (0: empty)
PatternCell(m, col, k) ==
    IF k = 0 THEN None
    ELSE DimPatterns[m][k][IndexOf(DIMENSIONS_MAPPING[m], col)]

DimRow(m, layout, article, k) ==
    <<article>>
    \o [c \in 1..Len(DimColumnsOf(m, layout)) |-> PatternCell(m, DimColumnsOf(m, layout)[c], k)]
    \o <<Str(<<"x">>)>>

DimTable(m, layout, articles, pats) ==
    LoadTable(<<ARTICLE_COLUMNS[m]>> \o DimColumnsOf(m, layout) \o <<MATERIAL_COLUMNS[m]>>,
              [r \in 1..Len(articles) |->
                  DimRow(m, layout, articles[r],
                         IF <<m, r>> \in DOMAIN pats THEN pats[<<m, r>>] ELSE 0)])

Slots(articles) == {<<m, r>> : m \in MP, r \in 1..2} \cap
                   {sl \in MP \X (1..2) : sl[2] <= Len(articles[sl[1]])}

InitDim ==
    /\ \E layout \in ColumnLayouts, articles \in ArticleLayouts :
         \E filled \in {f \in SUBSET Slots(articles) : Cardinality(f) <= MaxFilled} :
           \E pats \in [filled -> 1..NPatterns] :
             dfs = [m \in MP |-> DimTable(m, layout, articles[m], pats)]
    /\ dfs_loaded = dfs
    /\ dfs_before = dfs
    /\ pc = "aligned"
    /\ ValIdle
    /\ EngIdle
    /\ AppIdle

SpecDim == InitDim /\ [][SyncDimensions]_vars

(***************************************************************************)
(* SpecVal: one direct call of the Validation Cascade on bounded inputs    *)
(***************************************************************************)
\* 'Закаленное стекло'
GLASS ==
    <<"Z","a","k","a","l","e","n","n","o","e"," ","s","t","e","k","l","o">>
\* 'закалённое стекло'
GLASS_YO ==
    <<"z","a","k","a","l","yo","n","n","o","e"," ","s","t","e","k","l","o">>
\* 'Стекло'
STEKLO == <<"S","t","e","k","l","o">>
\* 'закаленное'
ZAKALENNOE == <<"z","a","k","a","l","e","n","n","o","e">>
\* 'Пластик'
PLASTIK == <<"P","l","a","s","t","i","k">>
\* 'НЕТ_СОВПАДЕНИЯ'
NO_MATCH_TEXT ==
    <<"N","E","T","_","S","O","V","P","A","D","E","N","I","YA">>
\* 'Дерево' - an answer that is no entry of any list
GARBAGE == <<"D","e","r","e","v","o">>

\* '2 шт', '2', 'стекло 2 мм'
LIST_GLASS == <<GLASS, STEKLO>>
LIST_COUNT == <<<<"2"," ","sh","t">>, <<"2">>, <<"s","t","e","k","l","o"," ","2"," ","m","m">>>>

\* 'Цвет'
VAL_COLUMN == <<"C","v","e","t">>

\* the lists and, for each, values that exercise its levels
ValidationFamilies ==
    { [allowed |-> LIST_GLASS,
       values  |-> {GLASS, GLASS_YO, ZAKALENNOE, PLASTIK},
       numbers |-> {}],
      [allowed |-> LIST_COUNT,
       \* '2', '2 ШТ', '2 комп', 'стекло 2', 'шт', 'штука'
       values  |-> {<<"2">>, <<"2"," ","SH","T">>, <<"2"," ","k","o","m","p">>,
                    <<"s","t","e","k","l","o"," ","2">>, <<"sh","t">>,
                    <<"sh","t","u","k","a">>},
       numbers |-> {Num(2000), Num(0)}],
      [allowed |-> <<>>,
       values  |-> {GLASS, <<"2">>},
       numbers |-> {}] }

\* what the Oracle may answer when asked to match against `allowed`
OracleResponses(allowed) ==
    {OracleText(NO_MATCH_TEXT), OracleText(GARBAGE), OracleFailure}
    \cup (IF allowed = <<>> THEN {}
          ELSE {OracleText(allowed[1]), OracleText(<<" ">> \o Upper(allowed[1]))})

\* the raw values of a family: up to MaxParts parts (a part may be empty)
\* joined with "; ", and the family's numbers
RawValues(f) ==
    {Str(Join(parts, <<";"," ">>)) :
        parts \in UNION {[1..k -> f.values \cup {<<>>}] : k \in 1..MaxParts}}
    \cup f.numbers

\* the parts of a value that reach level 5
OracleDomain(value, allowed) ==
    {p \in SeqToSet(value_parts(Strip(StrOf(value)))) \cup {Strip(StrOf(value))} :
        /\ allowed # <<>>
        /\ ~Truthy(exact_match(p, allowed))
        /\ ~Truthy(normalized_match(p, allowed))
        /\ ~Truthy(number_match(p, allowed))
        /\ ~Truthy(partial_match(p, allowed))}

\* an entry already in the log when the call is made
PriorLogEntry ==
    [marketplace |-> "OZON", column |-> VAL_COLUMN, original |-> STEKLO,
     matched |-> STEKLO, method |-> METHOD_EXACT]

InitVal ==
    /\ SyncIdle
    /\ AppIdle
    /\ \E f \in ValidationFamilies :
         \E value \in RawValues(f) :
           \E op \in {"validate_value", "validate_multiple_values"} :
             \E m \in MP :
               \E has_ai \in BOOLEAN :
                 \E oracle \in [OracleDomain(value, f.allowed) -> OracleResponses(f.allowed)] :
                   /\ op = "validate_value" => value.k = "str"
                   /\ ~has_ai => \A p \in DOMAIN oracle : oracle[p] = OracleFailure
                   /\ v_call = [op |-> op, value |-> value, marketplace |-> m,
                                column |-> VAL_COLUMN, allowed |-> f.allowed,
                                has_ai |-> has_ai, oracle |-> oracle]
    /\ ai_validation_log \in {<<>>, <<PriorLogEntry>>}
    /\ ai_requests = <<>>
    /\ v_out = NoOutcome

\* the effects of a call that produced `out`
Returned(out) ==
    /\ ai_validation_log' = ai_validation_log \o out.log
    /\ ai_requests' = ai_requests \o out.asked
    /\ v_out' = [done |-> TRUE, result |-> out.result, log_before |-> ai_validation_log]

ValidateValue ==
    /\ v_call.op = "validate_value"
    /\ ~v_out.done
    /\ Returned(validate_value(v_call.value.s, v_call.marketplace, v_call.column,
                               v_call.allowed, v_call.has_ai, v_call.oracle))
    /\ UNCHANGED <<v_call, syncVars, engVars, appVars>>

ValidateMultipleValues ==
    /\ v_call.op = "validate_multiple_values"
    /\ ~v_out.done
    /\ Returned(validate_multiple_values(v_call.value, v_call.marketplace, v_call.column,
                                         v_call.allowed, v_call.has_ai, v_call.oracle))
    /\ UNCHANGED <<v_call, syncVars, engVars, appVars>>

NextVal == ValidateValue \/ ValidateMultipleValues

SpecVal == InitVal /\ [][NextVal]_vars

(***************************************************************************)
(* SpecSync: whole runs of synchronize_data, and a second run on the       *)
(* result of the first, on bounded catalogs                                *)
(***************************************************************************)
\* 'Бренд': a column no table has
BRAND == <<"B","r","e","n","d">>
\* 'Пластик; Закаленное стекло'
PLASTIK_GLASS == PLASTIK \o <<";"," ">> \o GLASS
\* '1,5'
COMMA_NUMBER == <<"1",",","5">>

SyncColumns ==
    [wildberries |-> <<WB_ARTICLE, WB_LENGTH, WB_WIDTH, WB_HEIGHT, WB_MATERIAL, WB_WEIGHT,
                       EXCLUDED_1>>,
     ozon        |-> <<OZON_ARTICLE, OZON_LENGTH, OZON_WIDTH, OZON_HEIGHT, OZON_MATERIAL,
                       OZON_WEIGHT, EXCLUDED_2>>,
     yandex      |-> <<YANDEX_ARTICLE, YANDEX_COMPOSITE, YANDEX_MATERIAL, YANDEX_WEIGHT,
                       EXCLUDED_3>>]

\* the identifiers of the rows of each catalog
SyncArticleLayouts ==
    { [wildberries |-> <<A1>>, ozon |-> <<A1>>, yandex |-> <<A1>>],
      [wildberries |-> <<A1>>, ozon |-> <<A1, B2>>, yandex |-> <<A1>>],
      [wildberries |-> <<A1, B2>>, ozon |-> <<A1, B2>>, yandex |-> <<A1, B2>>] }

\* what a catalog may hold: each fact fills the cells <<marketplace, article, column, value>>
SyncFacts ==
    << {<<"wildberries", A1, WB_MATERIAL, Str(GLASS_YO)>>},
       {<<"wildberries", A1, WB_MATERIAL, Str(PLASTIK_GLASS)>>},
       {<<"ozon", A1, OZON_MATERIAL, Str(PLASTIK)>>},
       {<<"yandex", A1, YANDEX_MATERIAL, Str(ZAKALENNOE)>>},
       {<<"wildberries", A1, WB_WEIGHT, Num(1500)>>},
       {<<"wildberries", A1, WB_WEIGHT, Str(COMMA_NUMBER)>>},
       {<<"ozon", B2, OZON_WEIGHT, PyInt(700)>>},
       {<<"yandex", A1, YANDEX_WEIGHT, Num(2000)>>},
       {<<"wildberries", A1, WB_LENGTH, Num(12000)>>},
       {<<"wildberries", A1, WB_LENGTH, Num(1500000)>>},
       {<<"wildberries", A1, WB_LENGTH, Num(30000)>>,
        <<"wildberries", A1, WB_WIDTH, Num(20000)>>,
        <<"wildberries", A1, WB_HEIGHT, Num(10000)>>},
       {<<"ozon", A1, OZON_LENGTH, PyInt(1205)>>},
       {<<"ozon", A1, OZON_LENGTH, PyInt(1205)>>,
        <<"ozon", A1, OZON_WIDTH, PyInt(800)>>,
        <<"ozon", A1, OZON_HEIGHT, PyInt(500)>>},
       {<<"yandex", A1, YANDEX_COMPOSITE, Str(<<"7","1","/","6","8","/","1","9","7">>)>>},
       {<<"wildberries", A1, WB_LENGTH, Str(<<"a","b","c">>)>>,
        <<"wildberries", A1, WB_WIDTH, Num(20000)>>,
        <<"wildberries", A1, WB_HEIGHT, Num(10000)>>},
       {<<"wildberries", A1, EXCLUDED_1, Num(990000)>>},
       {<<"ozon", A1, EXCLUDED_2, PyInt(1000)>>} >>

FactCells(S) == UNION {SyncFacts[i] : i \in S}

\* the facts fill cells of rows the layout has, and no cell twice
Compatible(S, articles) ==
    /\ \A c \in FactCells(S) : InSeq(articles[c[1]], c[2])
    /\ \A c1, c2 \in FactCells(S) :
          (c1[1] = c2[1] /\ c1[2] = c2[2] /\ c1[3] = c2[3]) => c1 = c2

FactCell(S, m, article, col) ==
    IF \E c \in FactCells(S) : c[1] = m /\ c[2] = article /\ c[3] = col
    THEN (CHOOSE c \in FactCells(S) : c[1] = m /\ c[2] = article /\ c[3] = col)[4]
    ELSE None

SyncTable(m, articles, S) ==
    LoadTable(SyncColumns[m],
              [r \in 1..Len(articles) |->
                  [c \in 1..Len(SyncColumns[m]) |->
                      IF c = 1 THEN Str(articles[r])
                      ELSE FactCell(S, m, articles[r], SyncColumns[m][c])]])

\* the correspondence sets handed to the engine: three-way matches (identifier,
\* material, weight, packed dimensions, excluded prices, an incomplete match,
\* columns no table has), and two-way matches (among them matches that name
\* excluded columns)
SyncCorrespondences ==
    { [matches_all_three |->
          << Match(WB_ARTICLE, OZON_ARTICLE, YANDEX_ARTICLE),
             Match(WB_MATERIAL, OZON_MATERIAL, YANDEX_MATERIAL),
             Match(WB_WEIGHT, OZON_WEIGHT, YANDEX_WEIGHT),
             Match(WB_LENGTH, OZON_LENGTH, YANDEX_COMPOSITE),
             Match(EXCLUDED_1, EXCLUDED_2, EXCLUDED_3),
             Match(WB_MATERIAL, <<>>, YANDEX_MATERIAL),
             Match(BRAND, OZON_MATERIAL, YANDEX_MATERIAL) >>,
       matches_1_2 |-> <<>>, matches_1_3 |-> <<>>, matches_2_3 |-> <<>>],
      [matches_all_three |-> <<>>,
       matches_1_2 |->
          << Match(WB_MATERIAL, OZON_MATERIAL, <<>>),
             Match(EXCLUDED_1, EXCLUDED_2, <<>>),
             Match(WB_WEIGHT, OZON_WEIGHT, <<>>) >>,
       matches_1_3 |->
          << Match(WB_WEIGHT, <<>>, YANDEX_WEIGHT),
             Match(WB_LENGTH, <<>>, <<>>),
             Match(BRAND, <<>>, YANDEX_MATERIAL) >>,
       matches_2_3 |->
          << Match(<<>>, OZON_MATERIAL, YANDEX_MATERIAL),
             Match(<<>>, EXCLUDED_2, YANDEX_WEIGHT) >>] }

\* the allow-lists read from the workbooks
SyncValidations ==
    { NoValidations,
      [wildberries |-> (WB_MATERIAL :> LIST_GLASS),
       ozon        |-> (OZON_MATERIAL :> LIST_GLASS),
       yandex      |-> (YANDEX_MATERIAL :> LIST_GLASS)] }

\* no comparator, or one whose Oracle answers every value the same way
SyncComparators ==
    { NoComparator,
      [present |-> TRUE, oracle |-> (PLASTIK :> OracleText(STEKLO))],
      [present |-> TRUE, oracle |-> (PLASTIK :> OracleText(NO_MATCH_TEXT))] }

InitSync ==
    /\ \E articles \in SyncArticleLayouts :
         \E S \in {F \in SUBSET (1..Len(SyncFacts)) :
                      Cardinality(F) <= MaxFilled /\ Compatible(F, articles)} :
           dfs = [m \in MP |-> SyncTable(m, articles[m], S)]
    /\ dfs_loaded = dfs
    /\ dfs_before = dfs
    /\ pc = "loaded"
    /\ ValIdle
    /\ AppIdle
    /\ comparison_result \in SyncCorrespondences
    /\ column_validations \in SyncValidations
    /\ ai_comparator \in SyncComparators
    /\ column_validations = NoValidations => ai_comparator = NoComparator
    /\ changes_log = EmptyLog
    /\ fill_trace = <<>>
    /\ run = 1
    /\ ai_call = NoCall

\* the identifiers of all rows, and the orders a set of them may iterate in
AllKeys(d) ==
    UNION {{ArticleKey(d[m], r, ARTICLE_COLUMNS[m]) : r \in 1..NRows(d[m])} : m \in MP}
    \ {<<>>}

Orders(S) ==
    {f \in [1..Cardinality(S) -> S] : \A i, j \in 1..Cardinality(S) : f[i] = f[j] => i = j}

\* the effects of the propagation passes that ended in E
Synced(E) ==
    /\ dfs_before' = dfs
    /\ dfs' = E.dfs
    /\ changes_log' = E.changes_log
    /\ fill_trace' = E.fill_trace
    /\ ai_validation_log' = ai_validation_log \o E.log
    /\ ai_requests' = ai_requests \o E.asked
    /\ pc' = IF E.crashed THEN "crashed" ELSE "synced"

\* step 4 of synchronize_data
SyncAllMatches ==
    /\ pc = "dims"
    /\ \E order \in Orders(AllKeys(dfs)) :
         Synced(sync_all_matches([dfs |-> dfs, changes_log |-> changes_log,
                                  fill_trace |-> fill_trace, log |-> <<>>,
                                  asked |-> <<>>, crashed |-> FALSE], order))
    /\ UNCHANGED <<dfs_loaded, v_call, v_out, comparison_result, column_validations,
                   ai_comparator, run, ai_call, appVars>>

\* step 5 of synchronize_data, and its return
PostprocessWB ==
    /\ pc = "synced"
    /\ dfs_before' = dfs
    /\ dfs' = postprocess_wb_dimensions(dfs)
    /\ pc' = "done"
    /\ UNCHANGED <<dfs_loaded, valVars, engVars, appVars>>

\* the returned tables as the next run loads them
reload(d) == [m \in MP |-> LoadTable(d[m].columns, d[m].rows)]

\* synchronize_data of a new DataSynchronizer, with the same correspondence
\* set, on the tables the first run returned
Rerun ==
    /\ pc = "done"
    /\ run = 1
    /\ run' = 2
    /\ dfs' = reload(dfs)
    /\ dfs_loaded' = reload(dfs)
    /\ dfs_before' = reload(dfs)
    /\ changes_log' = EmptyLog
    /\ fill_trace' = <<>>
    /\ ai_validation_log' = <<>>
    /\ ai_requests' = <<>>
    /\ pc' = "loaded"
    /\ UNCHANGED <<v_call, v_out, comparison_result, column_validations, ai_comparator,
                   ai_call, appVars>>

NextSync == AlignArticles \/ SyncDimensions \/ SyncAllMatches \/ PostprocessWB \/ Rerun

SpecSync == InitSync /\ [][NextSync]_vars

(***************************************************************************)
(* SpecMatch: one call of compare_columns on bounded label lists and       *)
(* Oracle responses                                                        *)
(***************************************************************************)
\* ' ЦЕНА ': an excluded label in another case, padded
PRICE_PADDED == <<" ","C","E","N","A"," ">>

\* the label lists of the three catalogs
CompareInputs ==
    { <<<<WB_ARTICLE, WB_MATERIAL, WB_WEIGHT, EXCLUDED_1>>,
        <<OZON_ARTICLE, OZON_MATERIAL, OZON_WEIGHT, EXCLUDED_2>>,
        <<YANDEX_ARTICLE, YANDEX_MATERIAL, YANDEX_WEIGHT, EXCLUDED_3>>>>,
      <<<<WB_ARTICLE, PRICE_PADDED>>,
        <<OZON_ARTICLE, EXCLUDED_2>>,
        <<YANDEX_ARTICLE>>>>,
      <<<<WB_ARTICLE, WB_MATERIAL, WB_WEIGHT>>,
        <<OZON_ARTICLE, OZON_WEIGHT>>,
        <<YANDEX_ARTICLE, YANDEX_MATERIAL, <<>>>>>> }

\* what the Oracle may answer to a prompt: nothing matched; a three-way
\* match; matches that name excluded labels; a dictionary without the
\* only_in_* lists; two-way matches; text with no JSON in it
CompareResponses ==
    { Parsed(<<>>, <<>>, <<>>, <<>>, <<>>, <<>>, <<>>, TRUE),
      Parsed(<<Match(WB_MATERIAL, OZON_MATERIAL, YANDEX_MATERIAL)>>, <<>>, <<>>, <<>>,
             <<WB_WEIGHT>>, <<>>, <<>>, TRUE),
      Parsed(<<>>, <<Match(EXCLUDED_1, EXCLUDED_2, <<>>)>>, <<>>, <<>>,
             <<>>, <<>>, <<>>, TRUE),
      Parsed(<<Match(EXCLUDED_1, EXCLUDED_2, EXCLUDED_3)>>, <<>>, <<>>, <<>>,
             <<>>, <<>>, <<>>, TRUE),
      Parsed(<<Match(WB_ARTICLE, OZON_ARTICLE, YANDEX_ARTICLE)>>, <<>>, <<>>, <<>>,
             <<>>, <<>>, <<>>, FALSE),
      Parsed(<<>>, <<>>, <<Match(WB_MATERIAL, <<>>, YANDEX_MATERIAL)>>,
             <<Match(<<>>, OZON_WEIGHT, YANDEX_WEIGHT)>>,
             <<>>, <<OZON_MATERIAL>>, <<>>, TRUE),
      ParseError }

InitMatch ==
    /\ dfs = [m \in MP |-> EmptyTable]
    /\ dfs_loaded = dfs
    /\ dfs_before = dfs
    /\ pc = "matching"
    /\ ValIdle
    /\ AppIdle
    /\ comparison_result = NoMatches
    /\ column_validations = NoValidations
    /\ ai_comparator = NoComparator
    /\ changes_log = EmptyLog
    /\ fill_trace = <<>>
    /\ run = 1
    /\ \E columns \in CompareInputs, first \in CompareResponses, second \in CompareResponses :
         ai_call = [columns_1 |-> columns[1], columns_2 |-> columns[2],
                    columns_3 |-> columns[3], first |-> first, second |-> second,
                    prompts |-> <<>>]

\* the return of compare_columns, or the exception that ended it
Compared(out) ==
    /\ comparison_result' = out.result
    /\ pc' = IF out.raised THEN "match_failed" ELSE "matched"

CompareColumns ==
    /\ pc = "matching"
    /\ Compared(compare_columns(ai_call.columns_1, ai_call.columns_2, ai_call.columns_3,
                                ai_call.first, ai_call.second))
    /\ ai_call' = [ai_call EXCEPT !.prompts =
                      prompts_sent(filter_excluded_columns(ai_call.columns_1),
                                   filter_excluded_columns(ai_call.columns_2),
                                   filter_excluded_columns(ai_call.columns_3),
                                   ai_call.first)]
    /\ UNCHANGED <<dfs, dfs_loaded, dfs_before, valVars, column_validations, ai_comparator,
                   changes_log, fill_trace, run, appVars>>

SpecMatch == InitMatch /\ [][CompareColumns]_vars

(***************************************************************************)
(* SpecPasses: one call of compare_columns on label lists that the         *)
(* mandatory templates resolve against exactly, by substring, in part or   *)
(* not at all, with Oracle responses that consume and repeat labels        *)
(***************************************************************************)
\* 'АРТИКУЛ ПРОДАВЦА 1'
WB_ARTICLE_UPPER ==
    <<"A","R","T","I","K","U","L"," ","P","R","O","D","A","V","C","A"," ","1">>
\* 'Артикул продавца (WB)'
WB_ARTICLE_NOTE == WB_ARTICLE \o <<" ","(","W","B",")">>

PassInputs ==
    { <<<<WB_ARTICLE, WB_MATERIAL, WB_WEIGHT>>,
        <<OZON_ARTICLE, OZON_MATERIAL, OZON_WEIGHT>>,
        <<YANDEX_ARTICLE, YANDEX_MATERIAL, YANDEX_WEIGHT>>>>,
      <<<<WB_ARTICLE_UPPER, WB_ARTICLE, WB_MATERIAL>>,
        <<OZON_ARTICLE, OZON_MATERIAL>>,
        <<YANDEX_ARTICLE, YANDEX_MATERIAL>>>>,
      <<<<WB_MATERIAL, WB_ARTICLE_NOTE, WB_ARTICLE_UPPER>>,
        <<OZON_ARTICLE>>,
        <<YANDEX_ARTICLE, EXCLUDED_3>>>>,
      <<<<WB_ARTICLE, WB_MATERIAL>>,
        <<OZON_ARTICLE, OZON_MATERIAL>>,
        <<YANDEX_MATERIAL>>>>,
      <<<<WB_MATERIAL>>, <<OZON_MATERIAL>>, <<YANDEX_MATERIAL, <<>>>>>>,
      <<<<WB_ARTICLE>>, <<OZON_MATERIAL>>, <<YANDEX_MATERIAL>>>>,
      <<<<WB_ARTICLE>>, <<OZON_ARTICLE>>, <<YANDEX_ARTICLE>>>>,
      <<<<WB_ARTICLE, EXCLUDED_1>>, <<OZON_ARTICLE, EXCLUDED_2>>, <<YANDEX_ARTICLE, <<>>>>>> }

\* the answers to the first prompt: nothing; a three-way match on free
\* labels; a three-way match that holds an identifier label; two-way
\* matches, one of which holds an identifier label; text with no JSON
FirstPassResponses ==
    { Parsed(<<>>, <<>>, <<>>, <<>>, <<>>, <<>>, <<>>, TRUE),
      Parsed(<<Match(WB_MATERIAL, OZON_MATERIAL, YANDEX_MATERIAL)>>, <<>>, <<>>, <<>>,
             <<>>, <<>>, <<>>, TRUE),
      Parsed(<<Match(WB_ARTICLE, OZON_MATERIAL, YANDEX_MATERIAL)>>, <<>>, <<>>, <<>>,
             <<>>, <<>>, <<>>, TRUE),
      Parsed(<<>>, <<Match(WB_ARTICLE, OZON_MATERIAL, <<>>)>>,
             <<Match(WB_MATERIAL, <<>>, YANDEX_MATERIAL)>>, <<>>,
             <<>>, <<>>, <<>>, TRUE),
      ParseError }

\* the answers to the second prompt: nothing; a three-way match; a
\* three-way match on the identifier labels; a two-way match; text with no
\* JSON
SecondPassResponses ==
    { Parsed(<<>>, <<>>, <<>>, <<>>, <<>>, <<>>, <<>>, TRUE),
      Parsed(<<Match(WB_MATERIAL, OZON_MATERIAL, YANDEX_MATERIAL)>>, <<>>, <<>>, <<>>,
             <<>>, <<>>, <<>>, TRUE),
      Parsed(<<Match(WB_ARTICLE, OZON_ARTICLE, YANDEX_ARTICLE)>>, <<>>, <<>>, <<>>,
             <<>>, <<>>, <<>>, TRUE),
      Parsed(<<>>, <<>>, <<Match(WB_MATERIAL, <<>>, YANDEX_MATERIAL)>>, <<>>,
             <<>>, <<>>, <<>>, TRUE),
      ParseError }

InitPasses ==
    /\ dfs = [m \in MP |-> EmptyTable]
    /\ dfs_loaded = dfs
    /\ dfs_before = dfs
    /\ pc = "matching"
    /\ ValIdle
    /\ AppIdle
    /\ comparison_result = NoMatches
    /\ column_validations = NoValidations
    /\ ai_comparator = NoComparator
    /\ changes_log = EmptyLog
    /\ fill_trace = <<>>
    /\ run = 1
    /\ \E columns \in PassInputs, first \in FirstPassResponses, second \in SecondPassResponses :
         ai_call = [columns_1 |-> columns[1], columns_2 |-> columns[2],
                    columns_3 |-> columns[3], first |-> first, second |-> second,
                    prompts |-> <<>>]

SpecPasses == InitPasses /\ [][CompareColumns]_vars

(***************************************************************************)
(* SpecComposite: one direct call of parse_composite_dimensions on a       *)
(* bounded string, followed by format_composite_dimensions on the parsed   *)
(* triple                                                                  *)
(***************************************************************************)
MaxCompositeParts == 4

\* what stands between two '/': numerals in and out of canonical form, zero,
\* decimals, padded and signed numerals, text, and nothing
CompositeComponents ==
    { <<"7">>, <<"1","0">>, <<"1","9","7">>, <<"0","7">>, <<"0">>, <<"1","2",".","5">>,
      <<"7",".","0">>, <<" ","7">>, <<"-","5">>, <<"a","b","c">>, <<>> }

RECURSIVE JoinSlash(_)
JoinSlash(parts) ==
    IF Len(parts) = 0 THEN <<>>
    ELSE IF Len(parts) = 1 THEN parts[1]
    ELSE parts[1] \o <<"/">> \o JoinSlash(Tail(parts))

\* the components of a string with more than three parts
SurplusComponents == { <<"7">>, <<"1","0">>, <<>> }

CompositeInputs ==
    {None} \cup
    UNION { {Str(JoinSlash(parts)) :
                parts \in [1..k -> IF k <= 3 THEN CompositeComponents ELSE SurplusComponents]} :
            k \in 1..MaxCompositeParts }

InitComposite ==
    /\ SyncIdle
    /\ ValIdle
    /\ composite_in \in CompositeInputs
    /\ composite_out = NoOutcome
    /\ DbIdle
    /\ ProcIdle
    /\ LoadIdle

\* dimensions = parse_composite_dimensions(value), then, when it returned a
\* triple, format_composite_dimensions(length, width, height)
ParseAndFormat ==
    /\ ~composite_out.done
    /\ composite_out' =
         [done |-> TRUE,
          parsed |-> parse_composite_dimensions(composite_in),
          formatted |-> IF parse_composite_dimensions(composite_in).ok
                        THEN format_composite_dimensions(parse_composite_dimensions(composite_in).d)
                        ELSE None]
    /\ UNCHANGED <<composite_in, loadVars, dbVars, procVars, syncVars, valVars, engVars>>

SpecComposite == InitComposite /\ [][ParseAndFormat]_vars

(***************************************************************************)
(* SpecSchema: schemas are created and deleted through the bot's handlers, *)
(* and process_files reads a schema's matches for a run                    *)
(***************************************************************************)
MaxSchemas == 2

SchemaOwners == {101, 102}
\* 'A', 'B'
SchemaNames == {<<"A">>, <<"B">>}

Scored(match, confidence) == [match EXCEPT !.confidence = confidence]

\* the label lists of the three uploaded files
SchemaColumns == 
    <<<<WB_ARTICLE, WB_MATERIAL, WB_WEIGHT, EXCLUDED_1>>,
      <<OZON_ARTICLE, OZON_MATERIAL, OZON_WEIGHT, EXCLUDED_2>>,
      <<YANDEX_ARTICLE, YANDEX_MATERIAL, YANDEX_WEIGHT, EXCLUDED_3>>>>

\* what the Oracle may answer to the first prompt: three-way matches at,
\* below and above the threshold, and without a confidence; a two-way
\* match; nothing; text with no JSON in it
SchemaResponses ==
    { Parsed(<<Scored(Match(WB_MATERIAL, OZON_MATERIAL, YANDEX_MATERIAL), 85),
               Scored(Match(WB_WEIGHT, OZON_WEIGHT, YANDEX_WEIGHT), 84)>>,
             <<>>, <<>>, <<>>, <<>>, <<>>, <<>>, TRUE),
      Parsed(<<Match(WB_MATERIAL, OZON_MATERIAL, YANDEX_MATERIAL)>>,
             <<Match(WB_WEIGHT, OZON_WEIGHT, <<>>)>>, <<>>, <<>>, <<>>, <<>>, <<>>, TRUE),
      Parsed(<<Scored(Match(WB_MATERIAL, OZON_MATERIAL, YANDEX_MATERIAL), 50),
               Scored(Match(WB_WEIGHT, OZON_WEIGHT, YANDEX_WEIGHT), 0)>>,
             <<>>, <<>>, <<>>, <<>>, <<>>, <<>>, TRUE),
      Parsed(<<>>, <<>>, <<>>, <<>>, <<>>, <<>>, <<>>, TRUE),
      ParseError }

\* and to the second prompt
SchemaSecondResponses ==
    { Parsed(<<>>, <<>>, <<>>, <<>>, <<>>, <<>>, <<>>, TRUE),
      Parsed(<<>>, <<>>, <<>>, <<Match(<<>>, OZON_WEIGHT, YANDEX_WEIGHT)>>,
             <<>>, <<>>, <<>>, TRUE),
      ParseError }

\* what compare_columns returns, or raises, on these files
SchemaOutcomes ==
    { compare_columns(SchemaColumns[1], SchemaColumns[2], SchemaColumns[3], first, second) :
        first \in SchemaResponses, second \in SchemaSecondResponses }

InitSchema ==
    /\ SyncIdle
    /\ ValIdle
    /\ AppIdle

\* the effects of a run of the handler that ended as `fin`
Created(user_id, schema_name, out, fin) ==
    /\ fin.db.seq <= MaxSchemas
    /\ schemas' = fin.db.schemas
    /\ schema_matches' = fin.db.schema_matches
    /\ schema_seq' = fin.db.seq
    /\ creation' = [op |-> "create", user_id |-> user_id, schema_name |-> schema_name,
                    matcher |-> out, answer |-> fin.answer, schema_id |-> fin.schema_id,
                    returned |-> fin.returned, matches_count |-> fin.matches_count,
                    skipped_count |-> fin.skipped_count,
                    before |-> Db(schemas, schema_matches, schema_seq)]
    /\ loaded_schema_id' = NoSchemaId

FinalizeSchemaCreation ==
    /\ \E user_id \in SchemaOwners, schema_name \in SchemaNames, out \in SchemaOutcomes :
         Created(user_id, schema_name, out,
                 finalize_schema_creation(Db(schemas, schema_matches, schema_seq),
                                          user_id, schema_name, out))
    /\ UNCHANGED <<composite_in, composite_out, loadVars, procVars, syncVars, valVars, engVars>>

\* the schema_delete handler
DeleteSchema ==
    /\ \E user_id \in SchemaOwners, schema_name \in SchemaNames :
         /\ schemas' = delete_schema(Db(schemas, schema_matches, schema_seq),
                                     user_id, schema_name).db.schemas
         /\ creation' = [op |-> "delete", user_id |-> user_id, schema_name |-> schema_name,
                         deleted |-> delete_schema(Db(schemas, schema_matches, schema_seq),
                                                   user_id, schema_name).deleted,
                         before |-> Db(schemas, schema_matches, schema_seq)]
    /\ loaded_schema_id' = NoSchemaId
    /\ UNCHANGED <<schema_matches, schema_seq, composite_in, composite_out, loadVars, procVars,
                   syncVars, valVars, engVars>>

\* process_files: comparison_result = self.db.get_schema_matches(schema_id),
\* handed to DataSynchronizer(comparison_result, ...)
LoadSchema ==
    /\ loaded_schema_id = NoSchemaId
    /\ \E i \in 1..Len(schemas) :
         /\ loaded_schema_id' = schemas[i].id
         /\ comparison_result' =
              get_schema_matches(Db(schemas, schema_matches, schema_seq), schemas[i].id)
    /\ UNCHANGED <<schemas, schema_matches, schema_seq, creation, composite_in,
                   composite_out, loadVars, procVars, syncVars, valVars, column_validations, ai_comparator,
                   changes_log, fill_trace, run, ai_call>>

NextSchema == FinalizeSchemaCreation \/ DeleteSchema \/ LoadSchema

SpecSchema == InitSchema /\ [][NextSchema]_vars

(***************************************************************************)
(* BackgroundProcessor.process_files and cancel_processing                 *)
(***************************************************************************)
CANCELLED_BY_USER == "Obrabotka otmenena polzovatelem"
SYNC_ERROR == "synchronize_data raised"
SEND_ERROR == "send_document raised"

\* the documents process_files sends: the three output files, then the report
Documents == <<"wildberries", "ozon", "yandex", "report">>

\* what synchronize_data can end with: the number of logged changes, or an
\* exception
SyncEndings == {[raised |-> FALSE, total_synced |-> 0],
                [raised |-> FALSE, total_synced |-> 2],
                [raised |-> TRUE, total_synced |-> 0]}

\* BackgroundProcessor._update_progress: SET progress = ?, status = ?
update_progress(p, progress, status) ==
    [p EXCEPT !.progress = progress, !.status = status]

\* BackgroundProcessor._is_cancelled: can_cancel = 0
is_cancelled(p) == p.can_cancel = 0

\* Database.complete_processing
complete_processing(p, total_synced) ==
    [p EXCEPT !.status = "completed", !.synced_cells_count = total_synced]

\* Database.fail_processing
fail_processing(p, error_message) ==
    [p EXCEPT !.status = "failed", !.error_message = error_message]

\* the except branches of process_files: fail_processing, then the message
fails_with(p, error_message) ==
    /\ processing' = fail_processing(p, error_message)
    /\ proc_pc' = "ended"

\* a stage that ends with `if await self._is_cancelled(...): raise`
checked_stage(progress, status, next_pc) ==
    IF is_cancelled(processing)
    THEN fails_with(update_progress(processing, progress, status), CANCELLED_BY_USER)
    ELSE /\ processing' = update_progress(processing, progress, status)
         /\ proc_pc' = next_pc

InitProcess == SyncIdle /\ ValIdle /\ AppIdle

\* the caller's create_processing and the start of process_files
StartProcessing ==
    /\ proc_pc = "idle"
    /\ processing' = [processing EXCEPT !.status = "processing"]
    /\ proc_pc' = "start"
    /\ UNCHANGED <<sync_task, sent, cancelled_at>>
    /\ UNCHANGED <<composite_in, composite_out, loadVars, dbVars, syncVars, valVars, engVars>>

\* stage 1, up to the check before get_schema_matches
LoadStage ==
    /\ proc_pc = "start"
    /\ checked_stage(5, "Zagruzka skhemy...", "loaded")
    /\ UNCHANGED <<sync_task, sent, cancelled_at>>
    /\ UNCHANGED <<composite_in, composite_out, loadVars, dbVars, syncVars, valVars, engVars>>

\* stages 2 and 3, up to the check before DataSynchronizer(...)
PrepareStage ==
    /\ proc_pc = "loaded"
    /\ checked_stage(15, "Podgotovka k sinkhronizatsii...", "prepared")
    /\ UNCHANGED <<sync_task, sent, cancelled_at>>
    /\ UNCHANGED <<composite_in, composite_out, loadVars, dbVars, syncVars, valVars, engVars>>

\* stage 4: asyncio.create_task(self._run_sync_with_cancel_check(...))
StartSync ==
    /\ proc_pc = "prepared"
    /\ processing' = update_progress(processing, 20, "Sinkhronizatsiya dannykh...")
    /\ sync_task' = [state |-> "running"]
    /\ proc_pc' = "syncing"
    /\ UNCHANGED <<sent, cancelled_at>>
    /\ UNCHANGED <<composite_in, composite_out, loadVars, dbVars, syncVars, valVars, engVars>>

\* synchronize_data returns or raises in the executor
SyncEnds ==
    /\ sync_task.state = "running"
    /\ \E ending \in SyncEndings :
         sync_task' = [state |-> "done", raised |-> ending.raised,
                       total_synced |-> ending.total_synced]
    /\ UNCHANGED <<processing, proc_pc, sent, cancelled_at>>
    /\ UNCHANGED <<composite_in, composite_out, loadVars, dbVars, syncVars, valVars, engVars>>

\* while not sync_task.done(): await asyncio.sleep(update_interval)
Sleep ==
    /\ proc_pc = "syncing"
    /\ sync_task.state = "running"
    /\ proc_pc' = "sleeping"
    /\ UNCHANGED <<processing, sync_task, sent, cancelled_at>>
    /\ UNCHANGED <<composite_in, composite_out, loadVars, dbVars, syncVars, valVars, engVars>>

\* the rest of the loop body: the check, then the next progress value
Poll ==
    /\ proc_pc = "sleeping"
    /\ IF is_cancelled(processing)
       THEN /\ sync_task' = IF sync_task.state = "running"
                            THEN [state |-> "cancelled"] ELSE sync_task
            /\ fails_with(processing, CANCELLED_BY_USER)
       ELSE /\ processing' =
                 update_progress(processing,
                                 IF processing.progress + 10 < 80
                                 THEN processing.progress + 10 ELSE 80,
                                 "Sinkhronizatsiya dannykh...")
            /\ proc_pc' = "syncing"
            /\ UNCHANGED sync_task
    /\ UNCHANGED <<sent, cancelled_at>>
    /\ UNCHANGED <<composite_in, composite_out, loadVars, dbVars, syncVars, valVars, engVars>>

\* synced_dfs, changes_log = await sync_task; stage 5 up to its check
Collect ==
    /\ proc_pc = "syncing"
    /\ sync_task.state = "done"
    /\ IF sync_task.raised
       THEN fails_with(processing, SYNC_ERROR)
       ELSE checked_stage(85, "Sozdanie otcheta...", "reporting")
    /\ UNCHANGED <<sync_task, sent, cancelled_at>>
    /\ UNCHANGED <<composite_in, composite_out, loadVars, dbVars, syncVars, valVars, engVars>>

\* create_report_with_changes and stage 6
CreateReport ==
    /\ proc_pc = "reporting"
    /\ processing' = update_progress(processing, 90, "Podgotovka faylov...")
    /\ proc_pc' = "counted"
    /\ UNCHANGED <<sync_task, sent, cancelled_at>>
    /\ UNCHANGED <<composite_in, composite_out, loadVars, dbVars, syncVars, valVars, engVars>>

\* self.db.complete_processing(processing_id, ...)
Complete ==
    /\ proc_pc = "counted"
    /\ processing' = complete_processing(processing, sync_task.total_synced)
    /\ proc_pc' = "completed"
    /\ UNCHANGED <<sync_task, sent, cancelled_at>>
    /\ UNCHANGED <<composite_in, composite_out, loadVars, dbVars, syncVars, valVars, engVars>>

\* stage 7: _update_progress(processing_id, 95, 'Отправка файлов...')
SendStage ==
    /\ proc_pc = "completed"
    /\ processing' = update_progress(processing, 95, "Otpravka faylov...")
    /\ proc_pc' = "sending"
    /\ UNCHANGED <<sync_task, sent, cancelled_at>>
    /\ UNCHANGED <<composite_in, composite_out, loadVars, dbVars, syncVars, valVars, engVars>>

\* await self.bot.send_document(...), for each output file and the report
SendDocument ==
    /\ proc_pc = "sending"
    /\ Len(sent) < Len(Documents)
    /\ sent' = Append(sent, Documents[Len(sent) + 1])
    /\ UNCHANGED <<processing, proc_pc, sync_task, cancelled_at>>
    /\ UNCHANGED <<composite_in, composite_out, loadVars, dbVars, syncVars, valVars, engVars>>

\* send_document raises (the Bot API refuses the file or cannot be reached):
\* the exception reaches `except Exception` of process_files
SendFails ==
    /\ proc_pc = "sending"
    /\ Len(sent) < Len(Documents)
    /\ fails_with(processing, SEND_ERROR)
    /\ UNCHANGED <<sync_task, sent, cancelled_at>>
    /\ UNCHANGED <<composite_in, composite_out, loadVars, dbVars, syncVars, valVars, engVars>>

\* stage 8 and the final message
Finish ==
    /\ proc_pc = "sending"
    /\ Len(sent) = Len(Documents)
    /\ processing' = update_progress(processing, 100, "Zaversheno")
    /\ proc_pc' = "ended"
    /\ UNCHANGED <<sync_task, sent, cancelled_at>>
    /\ UNCHANGED <<composite_in, composite_out, loadVars, dbVars, syncVars, valVars, engVars>>

\* BackgroundProcessor.cancel_processing, at any moment of the run
CancelProcessing ==
    /\ proc_pc # "idle"
    /\ processing' = [processing EXCEPT !.can_cancel = 0]
    /\ cancelled_at' = IF cancelled_at = "never" THEN proc_pc ELSE cancelled_at
    /\ UNCHANGED <<proc_pc, sync_task, sent>>
    /\ UNCHANGED <<composite_in, composite_out, loadVars, dbVars, syncVars, valVars, engVars>>

NextProcess ==
    \/ StartProcessing \/ LoadStage \/ PrepareStage \/ StartSync \/ SyncEnds
    \/ Sleep \/ Poll \/ Collect \/ CreateReport \/ Complete \/ SendStage
    \/ SendDocument \/ SendFails \/ Finish \/ CancelProcessing

SpecProcess == InitProcess /\ [][NextProcess]_vars

(***************************************************************************)
(* SpecUpdate: one schema is created through finalize_schema_creation and  *)
(* then updated, any number of times, through finalize_schema_update       *)
(***************************************************************************)
\* 'Бренд', 'Бренд*', 'Бренд *'
WB_BRAND == MANDATORY_MATCHES[3].column_1
OZON_BRAND == MANDATORY_MATCHES[3].column_2
YANDEX_BRAND == MANDATORY_MATCHES[3].column_3

\* the label lists of the files uploaded for the update: the files the
\* schema was created from; files with the identifier and weight columns
\* only; files with brand columns, an empty label and a repeated label
UpdateFiles ==
    { SchemaColumns,
      <<<<WB_ARTICLE, WB_WEIGHT>>, <<OZON_ARTICLE, OZON_WEIGHT>>,
        <<YANDEX_ARTICLE, YANDEX_WEIGHT>>>>,
      <<<<WB_ARTICLE, WB_BRAND, WB_MATERIAL, <<>>>>,
        <<OZON_ARTICLE, OZON_BRAND, OZON_MATERIAL, OZON_MATERIAL>>,
        <<YANDEX_ARTICLE, YANDEX_BRAND, YANDEX_MATERIAL>>>> }

\* the Oracle's answers to the first prompt of the update: a match on
\* uncovered labels at 0.95, at 0.85 and at 0.84; the identifier match, whose
\* labels were not in the prompt; a match of a covered label with uncovered
\* ones; the same match twice; nothing; text with no JSON in it
UpdateResponses ==
    { Parsed(<<Match(WB_MATERIAL, OZON_MATERIAL, YANDEX_MATERIAL)>>,
             <<>>, <<>>, <<>>, <<>>, <<>>, <<>>, TRUE),
      Parsed(<<Scored(Match(WB_MATERIAL, OZON_MATERIAL, YANDEX_MATERIAL), 85),
               Scored(Match(WB_MATERIAL, OZON_MATERIAL, YANDEX_MATERIAL), 85)>>,
             <<>>, <<>>, <<>>, <<>>, <<>>, <<>>, TRUE),
      Parsed(<<Scored(Match(WB_MATERIAL, OZON_MATERIAL, YANDEX_MATERIAL), 84)>>,
             <<Match(WB_BRAND, OZON_BRAND, <<>>)>>, <<>>, <<>>, <<>>, <<>>, <<>>, TRUE),
      Parsed(<<Match(WB_ARTICLE, OZON_ARTICLE, YANDEX_ARTICLE)>>,
             <<>>, <<>>, <<>>, <<>>, <<>>, <<>>, TRUE),
      Parsed(<<Match(WB_ARTICLE, OZON_MATERIAL, YANDEX_MATERIAL)>>,
             <<>>, <<>>, <<>>, <<>>, <<>>, <<>>, TRUE),
      Parsed(<<>>, <<>>, <<>>, <<>>, <<>>, <<>>, <<>>, TRUE),
      ParseError }

\* and to the second prompt
UpdateSecondResponses ==
    { Parsed(<<>>, <<>>, <<>>, <<>>, <<>>, <<>>, <<>>, TRUE),
      Parsed(<<Match(WB_WEIGHT, OZON_WEIGHT, YANDEX_WEIGHT)>>,
             <<>>, <<>>, <<>>, <<>>, <<>>, <<>>, TRUE),
      ParseError }

InitUpdate ==
    /\ SyncIdle
    /\ ValIdle
    /\ AppIdle

\* finalize_schema_creation by one owner under one name, while the owner
\* has no schema
CreateSchemaForUpdate ==
    /\ schemas = <<>>
    /\ \E out \in SchemaOutcomes :
         Created(101, <<"A">>, out,
                 finalize_schema_creation(Db(schemas, schema_matches, schema_seq),
                                          101, <<"A">>, out))
    /\ UNCHANGED <<composite_in, composite_out, loadVars, procVars, syncVars, valVars, engVars>>

\* the effects of a run of finalize_schema_update that ended as `fin`
UpdatedTo(schema_id, all_columns, fin) ==
    /\ schemas' = fin.db.schemas
    /\ schema_matches' = fin.db.schema_matches
    /\ schema_seq' = fin.db.seq
    /\ creation' = [op |-> "update", schema_id |-> schema_id, all_columns |-> all_columns,
                    passed |-> fin.passed, answer |-> fin.answer,
                    new_count |-> fin.new_count,
                    before |-> Db(schemas, schema_matches, schema_seq)]
    /\ loaded_schema_id' = NoSchemaId

\* the handler on a schema of the user's list and three uploaded files
FinalizeSchemaUpdate ==
    /\ \E i \in 1..Len(schemas), all_columns \in UpdateFiles,
          first \in UpdateResponses, second \in UpdateSecondResponses :
         UpdatedTo(schemas[i].id, all_columns,
                   finalize_schema_update(
                      Db(schemas, schema_matches, schema_seq), schemas[i].id,
                      existing_matches_of(
                         get_schema_matches(Db(schemas, schema_matches, schema_seq),
                                            schemas[i].id).matches_all_three, 1),
                      all_columns, first, second))
    /\ UNCHANGED <<composite_in, composite_out, loadVars, procVars, syncVars, valVars, engVars>>

NextUpdate == CreateSchemaForUpdate \/ FinalizeSchemaUpdate

SpecUpdate == InitUpdate /\ [][NextUpdate]_vars

(***************************************************************************)
(* SpecHeaders: _handle_duplicate_columns on the header row of a sheet     *)
(***************************************************************************)
MaxHeaders == 4

\* the cells of a header row: 'X', 'X1', 'Y', '1', and '' for an empty cell
HeaderLabels == { <<"X">>, <<"X","1">>, <<"Y">>, <<"1">>, <<>> }

HeaderRows == UNION { [1..n -> HeaderLabels] : n \in 0..MaxHeaders }

InitHeaders ==
    /\ SyncIdle
    /\ ValIdle
    /\ composite_in = None
    /\ composite_out = NoOutcome
    /\ DbIdle
    /\ ProcIdle
    /\ header_row \in HeaderRows
    /\ headers = NoOutcome

\* headers = self._handle_duplicate_columns(headers, marketplace)
HandleDuplicateColumns ==
    /\ ~headers.done
    /\ headers' = [done |-> TRUE,
                   headers |-> handle_duplicate_columns(header_row).headers,
                   renamed |-> handle_duplicate_columns(header_row).renamed]
    /\ UNCHANGED <<header_row, composite_in, composite_out, dbVars, procVars, syncVars,
                   valVars, engVars>>

SpecHeaders == InitHeaders /\ [][HandleDuplicateColumns]_vars

(***************************************************************************)
(* SpecOracle: a schema is created from the Oracle's answers, loaded, and  *)
(* a run of synchronize_data validates values against allow-lists with an  *)
(* Oracle that may fail                                                    *)
(***************************************************************************)
\* rows A1 and B2 in every catalog; the material cell of A1 in Wildberries
\* and of B2 in Ozon
OracleTable(m, wb_a1, ozon_b2) ==
    LoadTable(SyncColumns[m],
              [r \in 1..2 |->
                  [c \in 1..Len(SyncColumns[m]) |->
                      IF c = 1 THEN Str(<<A1, B2>>[r])
                      ELSE IF m = "wildberries" /\ r = 1 /\ SyncColumns[m][c] = WB_MATERIAL
                           THEN wb_a1
                      ELSE IF m = "ozon" /\ r = 2 /\ SyncColumns[m][c] = OZON_MATERIAL
                           THEN ozon_b2
                      ELSE None]])

\* an Oracle whose call fails, one that answers with a listed value, one
\* that finds no match
OracleComparators ==
    { [present |-> TRUE, oracle |-> (PLASTIK :> OracleFailure)],
      [present |-> TRUE, oracle |-> (PLASTIK :> OracleText(STEKLO))],
      [present |-> TRUE, oracle |-> (PLASTIK :> OracleText(NO_MATCH_TEXT))] }

InitOracle ==
    /\ \E wb_a1 \in {None, Str(PLASTIK), Str(PLASTIK_GLASS), Str(GLASS_YO)},
          ozon_b2 \in {None, Str(PLASTIK), Str(GLASS_YO)} :
         dfs = [m \in MP |-> OracleTable(m, wb_a1, ozon_b2)]
    /\ dfs_loaded = dfs
    /\ dfs_before = dfs
    /\ pc = "loaded"
    /\ ValIdle
    /\ AppIdle
    /\ comparison_result = NoMatches
    /\ column_validations \in SyncValidations \ {NoValidations}
    /\ ai_comparator \in OracleComparators
    /\ changes_log = EmptyLog
    /\ fill_trace = <<>>
    /\ run = 1
    /\ ai_call = NoCall

\* process_files reads the schema before DataSynchronizer is constructed
LoadForRun == pc = "loaded" /\ LoadSchema

\* finalize_schema_creation by one owner under one name, before the run
CreateSchemaForRun ==
    /\ pc = "loaded"
    /\ \E out \in SchemaOutcomes :
         Created(101, <<"A">>, out,
                 finalize_schema_creation(Db(schemas, schema_matches, schema_seq),
                                          101, <<"A">>, out))
    /\ UNCHANGED <<composite_in, composite_out, loadVars, procVars, syncVars, valVars, engVars>>

NextOracle ==
    \/ CreateSchemaForRun \/ LoadForRun
    \/ AlignArticles \/ SyncDimensions \/ SyncAllMatches \/ PostprocessWB

SpecOracle == InitOracle /\ [][NextOracle]_vars

(***************************************************************************)
(* SpecNoIdentifier: runs of synchronize_data on catalogs one of which has *)
(* no identifier column                                                    *)
(***************************************************************************)
\* the facts used: materials, weights, dimension triples, a composite
IdentifierFacts == {1, 3, 5, 7, 11, 13, 14}

\* the table with its identifier column under another label
without_identifier(t) == [t EXCEPT !.columns = <<DataCol>> \o Tail(@)]

\* the catalogs that lack their identifier column
Lacking == {m \in MP : ~HasCol(dfs_loaded[m], ARTICLE_COLUMNS[m])}

InitNoIdentifier ==
    /\ \E articles \in SyncArticleLayouts, lacking \in MP :
         \E S \in {F \in SUBSET IdentifierFacts :
                      Cardinality(F) <= MaxFilled /\ Compatible(F, articles)} :
           dfs = [m \in MP |-> IF m = lacking
                               THEN without_identifier(SyncTable(m, articles[m], S))
                               ELSE SyncTable(m, articles[m], S)]
    /\ dfs_loaded = dfs
    /\ dfs_before = dfs
    /\ pc = "loaded"
    /\ ValIdle
    /\ AppIdle
    /\ comparison_result \in SyncCorrespondences
    /\ column_validations \in SyncValidations
    /\ ai_comparator = NoComparator
    /\ changes_log = EmptyLog
    /\ fill_trace = <<>>
    /\ run = 1
    /\ ai_call = NoCall

NextNoIdentifier == AlignArticles \/ SyncDimensions \/ SyncAllMatches \/ PostprocessWB

SpecNoIdentifier == InitNoIdentifier /\ [][NextNoIdentifier]_vars

(***************************************************************************)
(* SpecThree: runs of synchronize_data whose correspondence set is one     *)
(* three-way match                                                         *)
(***************************************************************************)
\* the facts used: materials, weights, lengths, a composite
ThreeWayFacts == {1, 3, 4, 5, 6, 7, 8, 9, 12, 14}

ThreeWayCorrespondences ==
    { [matches_all_three |-> <<mt>>, matches_1_2 |-> <<>>, matches_1_3 |-> <<>>,
       matches_2_3 |-> <<>>] :
        mt \in {Match(WB_MATERIAL, OZON_MATERIAL, YANDEX_MATERIAL),
                Match(WB_WEIGHT, OZON_WEIGHT, YANDEX_WEIGHT),
                Match(WB_LENGTH, OZON_LENGTH, YANDEX_COMPOSITE)} }

InitThree ==
    /\ \E articles \in SyncArticleLayouts :
         \E S \in {F \in SUBSET ThreeWayFacts :
                      Cardinality(F) <= MaxFilled /\ Compatible(F, articles)} :
           dfs = [m \in MP |-> SyncTable(m, articles[m], S)]
    /\ dfs_loaded = dfs
    /\ dfs_before = dfs
    /\ pc = "loaded"
    /\ ValIdle
    /\ AppIdle
    /\ comparison_result \in ThreeWayCorrespondences
    /\ column_validations \in SyncValidations
    /\ ai_comparator = NoComparator
    /\ changes_log = EmptyLog
    /\ fill_trace = <<>>
    /\ run = 1
    /\ ai_call = NoCall

NextThree == AlignArticles \/ SyncDimensions \/ SyncAllMatches \/ PostprocessWB

SpecThree == InitThree /\ [][NextThree]_vars

(***************************************************************************)
(* SpecUnits: whole runs on one identifier whose packed dimensions lie     *)
(* around the magnitude the correction pass looks for                      *)
(***************************************************************************)
NoCells == [col \in {} |-> None]

\* a loaded WB length of 12, 100 and 150 cm
WBUnits ==
    { NoCells, (WB_LENGTH :> Num(12000)), (WB_LENGTH :> Num(100000)),
      (WB_LENGTH :> Num(150000)) }

\* Ozon triples of 1000 x 800 x 500 mm and 1205 x 800 x 500 mm
OzonUnits ==
    { NoCells,
      (OZON_LENGTH :> PyInt(1000)) @@ (OZON_WIDTH :> PyInt(800)) @@ (OZON_HEIGHT :> PyInt(500)),
      (OZON_LENGTH :> PyInt(1205)) @@ (OZON_WIDTH :> PyInt(800)) @@ (OZON_HEIGHT :> PyInt(500)) }

\* '100/68/197'
YandexUnits ==
    { NoCells, (YANDEX_COMPOSITE :> Str(<<"1","0","0","/","6","8","/","1","9","7">>)) }

UnitsTable(m, cells) ==
    LoadTable(SyncColumns[m],
              << [c \in 1..Len(SyncColumns[m]) |->
                    IF c = 1 THEN Str(A1)
                    ELSE IF SyncColumns[m][c] \in DOMAIN cells THEN cells[SyncColumns[m][c]]
                    ELSE None] >>)

InitUnits ==
    /\ \E wb \in WBUnits, ozon \in OzonUnits, yandex \in YandexUnits :
          dfs = [wildberries |-> UnitsTable("wildberries", wb),
                 ozon        |-> UnitsTable("ozon", ozon),
                 yandex      |-> UnitsTable("yandex", yandex)]
    /\ dfs_loaded = dfs
    /\ dfs_before = dfs
    /\ pc = "loaded"
    /\ ValIdle
    /\ AppIdle
    /\ comparison_result \in SyncCorrespondences
    /\ column_validations = NoValidations
    /\ ai_comparator = NoComparator
    /\ changes_log = EmptyLog
    /\ fill_trace = <<>>
    /\ run = 1
    /\ ai_call = NoCall

NextUnits == AlignArticles \/ SyncDimensions \/ SyncAllMatches \/ PostprocessWB

SpecUnits == InitUnits /\ [][NextUnits]_vars

(***************************************************************************)
(* SpecExecutor: process_files together with the synchronize_data call it  *)
(* started in the executor thread                                          *)
(***************************************************************************)
\* the executor thread runs synchronize_data: the task awaits its future,
\* and cancelling the task does not stop a call that is already running
ExecutorRuns == sync_task.state \in {"running", "cancelled"}

\* the tables of the three uploaded files: row A1, with Wildberries or Ozon
\* dimensions or without
InitExecutor ==
    /\ \E wb \in {NoCells, (WB_LENGTH :> Num(150000))},
          ozon \in {NoCells, (OZON_LENGTH :> PyInt(1205)) @@ (OZON_WIDTH :> PyInt(800))
                               @@ (OZON_HEIGHT :> PyInt(500))} :
          dfs = [wildberries |-> UnitsTable("wildberries", wb),
                 ozon        |-> UnitsTable("ozon", ozon),
                 yandex      |-> UnitsTable("yandex", NoCells)]
    /\ dfs_loaded = dfs
    /\ dfs_before = dfs
    /\ pc = "idle"
    /\ ValIdle
    /\ AppIdle
    /\ comparison_result \in SyncCorrespondences
    /\ column_validations = NoValidations
    /\ ai_comparator = NoComparator
    /\ changes_log = EmptyLog
    /\ fill_trace = <<>>
    /\ run = 1
    /\ ai_call = NoCall

\* loop.run_in_executor(None, synchronizer.synchronize_data, ...): the thread
\* starts the call while process_files sleeps; step 1, _load_all_dataframes
ExecutorLoads ==
    /\ sync_task.state = "running"
    /\ proc_pc = "sleeping"
    /\ pc = "idle"
    /\ pc' = "loaded"
    /\ UNCHANGED <<dfs, dfs_loaded, dfs_before, valVars, engVars, appVars>>

\* steps 2 to 5 of synchronize_data in the executor thread
ExecutorSteps ==
    /\ ExecutorRuns
    /\ AlignArticles \/ SyncDimensions \/ SyncAllMatches \/ PostprocessWB

\* step 6: self._save_results(synced_dfs, output_paths)
SaveResults ==
    /\ ExecutorRuns
    /\ pc = "done"
    /\ pc' = "saved"
    /\ UNCHANGED <<dfs, dfs_loaded, dfs_before, valVars, engVars, appVars>>

\* the call returns or raised: the future of a task that still awaits it is
\* resolved, the result of a cancelled task is dropped
ExecutorReturns ==
    /\ sync_task.state = "running"
    /\ pc \in {"saved", "crashed"}
    /\ sync_task' = [state |-> "done", raised |-> (pc = "crashed"),
                     total_synced |-> Len(changes_log["wildberries"])
                                      + Len(changes_log["ozon"])
                                      + Len(changes_log["yandex"])]
    /\ UNCHANGED <<processing, proc_pc, sent, cancelled_at>>
    /\ UNCHANGED <<composite_in, composite_out, loadVars, dbVars, syncVars, valVars, engVars>>

NextExecutor ==
    \/ StartProcessing \/ LoadStage \/ PrepareStage \/ StartSync
    \/ ExecutorLoads \/ ExecutorSteps \/ SaveResults \/ ExecutorReturns
    \/ Sleep \/ Poll \/ Collect \/ CreateReport \/ Complete \/ SendStage
    \/ SendDocument \/ SendFails \/ Finish \/ CancelProcessing

SpecExecutor == InitExecutor /\ [][NextExecutor]_vars

(***************************************************************************)
(* SpecAllowList: whole runs that propagate materials and weights into     *)
(* empty cells of columns that have allow-lists                            *)
(***************************************************************************)
\* 'Стекло; закалённое стекло'
STEKLO_GLASS_YO == STEKLO \o <<";"," ">> \o GLASS_YO
\* '1,5', '1500'
LIST_WEIGHT == <<COMMA_NUMBER, <<"1","5","0","0">>>>

\* the Wildberries cells of A1: a material and a weight
AllowListSources ==
    { (WB_MATERIAL :> material) @@ (WB_WEIGHT :> weight) :
        material \in {None, Str(GLASS_YO), Str(PLASTIK), Str(PLASTIK_GLASS),
                      Str(STEKLO_GLASS_YO)},
        weight \in {None, Num(1500), Str(COMMA_NUMBER)} }

\* row `article` of catalog m: the cells given, the others empty
AllowListRow(m, article, cells) ==
    [c \in 1..Len(SyncColumns[m]) |->
        IF c = 1 THEN Str(article)
        ELSE IF SyncColumns[m][c] \in DOMAIN cells THEN cells[SyncColumns[m][c]]
        ELSE None]

\* allow-lists on the material columns, and on the weight columns as well
AllowListValidations ==
    { [wildberries |-> (WB_MATERIAL :> LIST_GLASS),
       ozon        |-> (OZON_MATERIAL :> LIST_GLASS),
       yandex      |-> (YANDEX_MATERIAL :> LIST_GLASS)],
      [wildberries |-> (WB_MATERIAL :> LIST_GLASS),
       ozon        |-> (OZON_MATERIAL :> LIST_GLASS) @@ (OZON_WEIGHT :> LIST_WEIGHT),
       yandex      |-> (YANDEX_MATERIAL :> LIST_GLASS) @@ (YANDEX_WEIGHT :> LIST_WEIGHT)] }

\* no Oracle; an Oracle that answers with a list entry, with an entry in
\* another spelling, with a text that is no entry, with "no match"; an
\* Oracle whose call fails
AllowListComparators ==
    { NoComparator,
      [present |-> TRUE, oracle |-> (PLASTIK :> OracleText(STEKLO))],
      [present |-> TRUE, oracle |-> (PLASTIK :> OracleText(GLASS_YO))],
      [present |-> TRUE, oracle |-> (PLASTIK :> OracleText(GARBAGE))],
      [present |-> TRUE, oracle |-> (PLASTIK :> OracleText(NO_MATCH_TEXT))],
      [present |-> TRUE, oracle |-> (PLASTIK :> OracleFailure)] }

\* Wildberries and Yandex hold row A1, Ozon holds A1 and B2; the Ozon
\* weight of B2 is a number or empty
InitAllowList ==
    /\ \E wb \in AllowListSources, ozon_b2 \in {None, PyInt(700)} :
          dfs = [wildberries |->
                    LoadTable(SyncColumns["wildberries"],
                              <<AllowListRow("wildberries", A1, wb)>>),
                 ozon |->
                    LoadTable(SyncColumns["ozon"],
                              <<AllowListRow("ozon", A1, NoCells),
                                AllowListRow("ozon", B2, (OZON_WEIGHT :> ozon_b2))>>),
                 yandex |->
                    LoadTable(SyncColumns["yandex"],
                              <<AllowListRow("yandex", A1, NoCells)>>)]
    /\ dfs_loaded = dfs
    /\ dfs_before = dfs
    /\ pc = "loaded"
    /\ ValIdle
    /\ AppIdle
    /\ comparison_result \in SyncCorrespondences
    /\ column_validations \in AllowListValidations
    /\ ai_comparator \in AllowListComparators
    /\ changes_log = EmptyLog
    /\ fill_trace = <<>>
    /\ run = 1
    /\ ai_call = NoCall

NextAllowList == AlignArticles \/ SyncDimensions \/ SyncAllMatches \/ PostprocessWB

SpecAllowList == InitAllowList /\ [][NextAllowList]_vars

(***************************************************************************)
(* C2  Union coverage: after align_articles every catalog's set of valid   *)
(* identifiers equals the union of the valid identifiers of the three      *)
(* input tables, an identifier already present keeps its number of rows,   *)
(* and a missing identifier is inserted exactly once.                      *)
(***************************************************************************)
ArticleCount(t, article_col, a) ==
    Cardinality({r \in 1..NRows(t) :
        IsValidArticle(Cell(t, r, article_col))
        /\ Strip(StrOf(Cell(t, r, article_col))) = a})

UnionCoverage ==
    pc = "aligned" =>
      LET union == UNION {valid_articles(dfs_before[m], ARTICLE_COLUMNS[m]) : m \in MP}
      IN \A m \in MP :
           /\ valid_articles(dfs[m], ARTICLE_COLUMNS[m]) = union
           /\ \A a \in union :
                LET before == ArticleCount(dfs_before[m], ARTICLE_COLUMNS[m], a)
                IN ArticleCount(dfs[m], ARTICLE_COLUMNS[m], a)
                     = IF before > 0 THEN before ELSE 1

\* a catalog that lacked an identifier of another catalog has received it,
\* next to a duplicated and an instructional identifier cell
UnionCoverageWitness ==
    /\ pc = "aligned"
    /\ \E m \in MP : NRows(dfs[m]) > NRows(dfs_before[m])
    /\ \E m \in MP : \E a \in valid_articles(dfs_before[m], ARTICLE_COLUMNS[m]) :
          ArticleCount(dfs_before[m], ARTICLE_COLUMNS[m], a) = 2
    /\ \E m \in MP : \E r \in 1..NRows(dfs_before[m]) :
          /\ ~IsNA(Cell(dfs_before[m], r, ARTICLE_COLUMNS[m]))
          /\ ~IsValidArticle(Cell(dfs_before[m], r, ARTICLE_COLUMNS[m]))

(***************************************************************************)
(* C7  Validation cascade precedence: for a non-empty allow-list,          *)
(* validate_value returns the result of the first of the levels exact,     *)
(* normalized, number, partial, Oracle that matches; the Oracle is asked   *)
(* only when levels 1-4 all fail; a successful call appends exactly one    *)
(* log entry, naming the level that matched, and a failed call appends     *)
(* none.                                                                   *)
(***************************************************************************)
\* the levels, stated on the stripped value vs and the list
ExactHolds(vs, allowed) == \E i \in 1..Len(allowed) : allowed[i] = vs
NormalizedHolds(vs, allowed) ==
    \E i \in 1..Len(allowed) : normalize(allowed[i]) = normalize(vs)
NumberHolds(vs, allowed) ==
    /\ \E i \in 1..Len(vs) : IsDigit(vs[i])
    /\ \E i \in 1..Len(allowed) : extract_number(allowed[i]) = extract_number(vs)
PartialHolds(vs, allowed) ==
    /\ SplitWords(normalize(vs)) # <<>>
    /\ \E i \in 1..Len(allowed) :
         SeqToSet(SplitWords(normalize(vs))) \subseteq SeqToSet(SplitWords(normalize(allowed[i])))

\* the level the call must answer from: 1..4, or 5 when none of them matches
FirstLevel(vs, allowed) ==
    IF ExactHolds(vs, allowed) THEN 1
    ELSE IF NormalizedHolds(vs, allowed) THEN 2
    ELSE IF NumberHolds(vs, allowed) THEN 3
    ELSE IF PartialHolds(vs, allowed) THEN 4
    ELSE 5

LevelMethods == <<METHOD_EXACT, METHOD_NORMALIZED, METHOD_NUMBER, METHOD_PARTIAL, METHOD_AI>>

\* what each of levels 1-4 returns for vs
LevelAnswers(vs, allowed) ==
    <<exact_match(vs, allowed), normalized_match(vs, allowed),
      number_match(vs, allowed), partial_match(vs, allowed)>>

\* the entries the call appended to the log
AppendedLog == SubSeq(ai_validation_log, Len(v_out.log_before) + 1, Len(ai_validation_log))

CascadeAnswer(vs, allowed, level) ==
    /\ SubSeq(ai_validation_log, 1, Len(v_out.log_before)) = v_out.log_before
    /\ level <= 4 =>
         /\ v_out.result = LevelAnswers(vs, allowed)[level]
         /\ Truthy(v_out.result)
         /\ ai_requests = <<>>
    /\ level = 5 =>
         /\ ai_requests \in {<<>>, <<vs>>}
         /\ ai_requests # <<>> => v_call.has_ai
         /\ Truthy(v_out.result) =>
              /\ ai_requests = <<vs>>
              /\ InSeq(allowed, v_out.result.s)
         /\ ~Truthy(v_out.result) => v_out.result = None
    /\ IF Truthy(v_out.result)
       THEN AppendedLog = <<[marketplace |-> MPUpper[v_call.marketplace],
                             column |-> v_call.column, original |-> vs,
                             matched |-> v_out.result.s, method |-> LevelMethods[level]]>>
       ELSE AppendedLog = <<>>

CascadePrecedence ==
    (v_out.done /\ v_call.op = "validate_value" /\ v_call.allowed # <<>>) =>
        CascadeAnswer(Strip(v_call.value.s), v_call.allowed,
                      FirstLevel(Strip(v_call.value.s), v_call.allowed))

\* 'закалённое стекло' is answered 'Закаленное стекло' by the normalization
\* level, with the Oracle available and not asked
CascadePrecedenceWitness ==
    /\ v_out.done
    /\ v_call.op = "validate_value"
    /\ v_call.value = Str(GLASS_YO)
    /\ v_call.has_ai
    /\ v_out.result = Str(GLASS)
    /\ ai_requests = <<>>
    /\ Len(AppendedLog) = 1
    /\ AppendedLog[1].method = METHOD_NORMALIZED

(***************************************************************************)
(* C9  Multi-value validation is all-or-nothing: for a value containing    *)
(* ';' and a non-empty allow-list, validate_multiple_values returns        *)
(* nothing if a non-empty part fails the cascade; otherwise the first      *)
(* accepted part for wildberries, and the accepted parts in input order    *)
(* joined with the catalog's separator for ozon and yandex.                *)
(***************************************************************************)
\* what the cascade accepts for one part
Accepted(part) ==
    validate_value(part, v_call.marketplace, v_call.column, v_call.allowed,
                   v_call.has_ai, v_call.oracle).result

AllOrNothingFor(parts) ==
    IF \E i \in 1..Len(parts) : ~Truthy(Accepted(parts[i])) THEN v_out.result = None
    ELSE IF parts = <<>> THEN v_out.result = None
    ELSE IF v_call.marketplace = "wildberries" THEN v_out.result = Accepted(parts[1])
    ELSE v_out.result =
             Str(Join([i \in 1..Len(parts) |-> Accepted(parts[i]).s],
                      VALUE_SEPARATORS[v_call.marketplace]))

MultiValueAllOrNothing ==
    (/\ v_out.done
     /\ v_call.op = "validate_multiple_values"
     /\ v_call.allowed # <<>>
     /\ InSeq(StrOf(v_call.value), ";")) =>
        AllOrNothingFor(value_parts(Strip(StrOf(v_call.value))))

\* 'Пластик; закаленное' on ozon: the first part fails (the Oracle finds no
\* match), the second would be accepted, nothing is returned
MultiValueAllOrNothingWitness ==
    /\ v_out.done
    /\ v_call.op = "validate_multiple_values"
    /\ v_call.marketplace = "ozon"
    /\ v_call.value = Str(PLASTIK \o <<";"," ">> \o ZAKALENNOE)
    /\ v_call.has_ai
    /\ ai_requests = <<PLASTIK>>
    /\ v_out.result = None

(***************************************************************************)
(* C10  The Dimension Synchronizer never overwrites: a packed-dimension    *)
(* cell that is non-empty before sync_dimensions holds the same value      *)
(* afterwards, and every cell outside the seven dimension columns is       *)
(* unchanged (no column and no row is added or removed).                   *)
(***************************************************************************)
IsDimensionColumn(m, col) == InSeq(DIMENSIONS_MAPPING[m], col)

CellKept(m, r, c) ==
    (\/ ~IsDimensionColumn(m, dfs_before[m].columns[c])
     \/ ~IsBlank(dfs_before[m].rows[r][c]))
        => dfs[m].rows[r][c] = dfs_before[m].rows[r][c]

DimensionsNeverOverwrite ==
    pc \in {"dims", "crashed"} =>
        \A m \in MP :
            /\ dfs[m].columns = dfs_before[m].columns
            /\ Len(dfs[m].rows) = Len(dfs_before[m].rows)
            /\ \A r \in 1..Len(dfs_before[m].rows) :
                 \A c \in 1..Len(dfs_before[m].columns) : CellKept(m, r, c)

\* a WB row that held a length and no width is given the width from another
\* catalog and keeps its length
DimensionsNeverOverwriteWitness ==
    /\ pc = "dims"
    /\ \E r \in 1..Len(dfs_before.wildberries.rows) :
         /\ HasDimensionColumns(dfs.wildberries, "wildberries")
         /\ ~IsBlank(Cell(dfs_before.wildberries, r, WB_LENGTH))
         /\ IsBlank(Cell(dfs_before.wildberries, r, WB_WIDTH))
         /\ ~IsBlank(Cell(dfs.wildberries, r, WB_WIDTH))

(***************************************************************************)
(* C1  Idempotence of a reconciliation run: when synchronize_data is run   *)
(* again, with the same correspondence set, on the tables T' a first run   *)
(* returned, the second run returns tables equal to T' cell for cell (no   *)
(* cell changed, no row added) and its change log is empty; the WB         *)
(* packed-dimension correction pass included.                              *)
(***************************************************************************)
SameCell(a, b) ==
    \/ a = b
    \/ IsNumber(a) /\ IsNumber(b) /\ a.n = b.n

SameTables(d, e) ==
    \A m \in MP :
        /\ NRows(d[m]) = NRows(e[m])
        /\ \A r \in 1..NRows(d[m]) : \A c \in 1..Len(d[m].columns) :
              SameCell(d[m].rows[r][c], e[m].rows[r][c])

SecondRunChangesNothing ==
    (run = 2 /\ pc = "done") => (SameTables(dfs, dfs_loaded) /\ changes_log = EmptyLog)

(***************************************************************************)
(* C3  No value loss: for every three-way or two-way match the propagation *)
(* passes process and every identifier with a row in each matched catalog, *)
(* if some matched catalog held a non-empty value before the passes, then  *)
(* after them every matched catalog's cell is non-empty, unless the column *)
(* has an allow-list and the Validation Cascade rejected the value.        *)
(***************************************************************************)
MatchColumns(mt) ==
    [wildberries |-> mt.column_1, ozon |-> mt.column_2, yandex |-> mt.column_3]

\* the match passes the filters of the pass that relates the catalogs mps
Processed(mt, mps) ==
    \A m \in mps :
        /\ MatchColumns(mt)[m] # <<>>
        /\ ~is_excluded_column(MatchColumns(mt)[m])
        /\ HasCol(dfs[m], MatchColumns(mt)[m])

HasRow(d, m, article) ==
    \E r \in 1..NRows(d[m]) : ArticleKey(d[m], r, ARTICLE_COLUMNS[m]) = article

ValueAt(d, m, article, col) ==
    RowGet(d[m], last_row(d[m], ARTICLE_COLUMNS[m], article), col)

Rejected(m, article, col) ==
    /\ allowed_values_of(m, col) # <<>>
    /\ \E i \in 1..Len(fill_trace) :
          /\ fill_trace[i].marketplace = m
          /\ fill_trace[i].article = article
          /\ fill_trace[i].column = col
          /\ ~fill_trace[i].written

NoLossIn(mt, mps) ==
    Processed(mt, mps) =>
      \A article \in AllKeys(dfs) :
        ( /\ \A m \in mps : HasRow(dfs, m, article)
          /\ \E m \in mps : ~IsBlank(ValueAt(dfs_before, m, article, MatchColumns(mt)[m])) )
        => \A m \in mps :
              \/ ~IsBlank(ValueAt(dfs, m, article, MatchColumns(mt)[m]))
              \/ Rejected(m, article, MatchColumns(mt)[m])

NoValueLoss ==
    pc = "synced" =>
      /\ \A i \in 1..Len(comparison_result.matches_all_three) :
            NoLossIn(comparison_result.matches_all_three[i], MP)
      /\ \A p \in 1..Len(PAIRS) :
            \A i \in 1..Len(comparison_result[PAIRS[p].match_key]) :
                NoLossIn(comparison_result[PAIRS[p].match_key][i],
                         {PAIRS[p].mp1, PAIRS[p].mp2})

(***************************************************************************)
(* C4  Exclusion at propagation time: whatever the correspondence set      *)
(* names, no step of a run changes a cell of a column on the exclusion     *)
(* list, and no change-log entry names such a column.                      *)
(***************************************************************************)
OnExclusionList(col) == col \in SeqToSet(EXCLUDED_COLUMNS)

ExcludedColumnsUntouched ==
    /\ pc \in {"dims", "synced", "done", "crashed"} =>
          \A m \in MP : \A c \in 1..Len(dfs[m].columns) :
              OnExclusionList(dfs[m].columns[c]) =>
                  \A r \in 1..NRows(dfs[m]) : dfs[m].rows[r][c] = dfs_before[m].rows[r][c]
    /\ \A m \in MP : \A i \in 1..Len(changes_log[m]) :
          ~OnExclusionList(changes_log[m][i].column)

NamesExcluded(mt) ==
    \E m \in MP : OnExclusionList(MatchColumns(mt)[m])

\* a finished run whose correspondence set names excluded columns, one of
\* them filled and its counterpart empty, and that propagated other values
ExcludedColumnsUntouchedWitness ==
    /\ pc = "done"
    /\ \/ \E i \in 1..Len(comparison_result.matches_all_three) :
             NamesExcluded(comparison_result.matches_all_three[i])
       \/ \E i \in 1..Len(comparison_result.matches_1_2) :
             NamesExcluded(comparison_result.matches_1_2[i])
    /\ ~IsBlank(Cell(dfs.wildberries, 1, EXCLUDED_1))
    /\ IsBlank(Cell(dfs.ozon, 1, EXCLUDED_2))
    /\ changes_log.ozon # <<>>

(***************************************************************************)
(* C5  Exclusion at matching time: in the correspondence set that          *)
(* compare_columns returns, no three-way and no two-way match holds a      *)
(* column of the exclusion list, whatever the Oracle answered in either    *)
(* pass; the excluded input columns are in the catalog-unique lists.       *)
(***************************************************************************)
NoExcludedIn(matches) ==
    \A i \in 1..Len(matches) : ~NamesExcluded(matches[i])

ExcludedAreUnique(columns, unique) ==
    \A i \in 1..Len(columns) : OnExclusionList(columns[i]) => InSeq(unique, columns[i])

ExclusionAtMatching ==
    pc = "matched" =>
      /\ NoExcludedIn(comparison_result.matches_all_three)
      /\ NoExcludedIn(comparison_result.matches_1_2)
      /\ NoExcludedIn(comparison_result.matches_1_3)
      /\ NoExcludedIn(comparison_result.matches_2_3)
      /\ ExcludedAreUnique(ai_call.columns_1, comparison_result.only_in_first)
      /\ ExcludedAreUnique(ai_call.columns_2, comparison_result.only_in_second)
      /\ ExcludedAreUnique(ai_call.columns_3, comparison_result.only_in_third)

(***************************************************************************)
(* C6  Change-log provenance in three-way propagation: for a processed     *)
(* three-way match without allow-lists and an identifier with a row in all *)
(* three catalogs, when Wildberries holds a non-empty value and Ozon and   *)
(* Yandex are empty, then after the passes Ozon and Yandex hold that value *)
(* (unit-converted) and the change log has exactly one entry for the       *)
(* identifier under Ozon and one under Yandex, each naming Wildberries as  *)
(* the source.                                                             *)
(***************************************************************************)
EntriesFor(m, article, col) ==
    {i \in 1..Len(changes_log[m]) :
        changes_log[m][i].article = article /\ changes_log[m][i].column = col}

SourcedFromWB(mt, article, m) ==
    /\ SameCell(ValueAt(dfs, m, article, MatchColumns(mt)[m]),
                convert_value(ValueAt(dfs_before, "wildberries", article, mt.column_1),
                              detect_unit(mt.column_1), detect_unit(MatchColumns(mt)[m])))
    /\ Cardinality(EntriesFor(m, article, MatchColumns(mt)[m])) = 1
    /\ \A i \in EntriesFor(m, article, MatchColumns(mt)[m]) :
          changes_log[m][i].source = "wildberries"

ProvenanceIn(mt) ==
    ( /\ Processed(mt, MP)
      /\ \A m \in MP : allowed_values_of(m, MatchColumns(mt)[m]) = <<>> )
    => \A article \in AllKeys(dfs) :
         ( /\ \A m \in MP : HasRow(dfs, m, article)
           /\ ~IsBlank(ValueAt(dfs_before, "wildberries", article, mt.column_1))
           /\ IsBlank(ValueAt(dfs_before, "ozon", article, mt.column_2))
           /\ IsBlank(ValueAt(dfs_before, "yandex", article, mt.column_3)) )
         => /\ SourcedFromWB(mt, article, "ozon")
            /\ SourcedFromWB(mt, article, "yandex")
            /\ EntriesFor("wildberries", article, mt.column_1) = {}

ThreeWayProvenance ==
    pc = "synced" =>
      \A i \in 1..Len(comparison_result.matches_all_three) :
          ProvenanceIn(comparison_result.matches_all_three[i])

(***************************************************************************)
(* C8  Write decision for a propagated value and an empty target cell:     *)
(* without an allow-list the unit-converted raw value is written as it is; *)
(* with an allow-list and an accepted value, the accepted value is         *)
(* written; with an allow-list and no accepted value the cell stays empty, *)
(* the change log gets no entry, and the run goes on.                      *)
(***************************************************************************)
DecisionAsSpecified(f) ==
    /\ f.allowed = <<>> => (f.written /\ SameCell(f.stored, f.converted))
    /\ (f.allowed # <<>> /\ Truthy(f.final)) => (f.written /\ SameCell(f.stored, f.final))
    /\ (f.allowed # <<>> /\ ~Truthy(f.final)) =>
          (~f.written /\ IsBlank(f.stored) /\ f.log_after = f.log_before)

WriteDecision ==
    \A i \in 1..Len(fill_trace) : DecisionAsSpecified(fill_trace[i])

(***************************************************************************)
(* C11  Composite parse/format round trip: a string "L/W/H" whose three    *)
(* components are positive integers written as plain decimal numerals      *)
(* (digits only, no leading zero) is parsed, and formatting the parsed     *)
(* triple returns the string itself; a string that does not have exactly   *)
(* three '/'-separated parts, or has a part that is not a number above     *)
(* zero, is rejected.                                                      *)
(***************************************************************************)
\* digits only, denoting an integer above zero
PositiveInteger(part) ==
    AllDigits(part) /\ \E i \in 1..Len(part) : part[i] # "0"

PlainNumeral(part) == PositiveInteger(part) /\ part[1] # "0"

\* a decimal numeral, padded or not, with some digit other than zero
NumberAboveZero(part) ==
    /\ \A i \in 1..Len(Strip(part)) : IsDigit(Strip(part)[i]) \/ Strip(part)[i] = "."
    /\ Cardinality({i \in 1..Len(Strip(part)) : Strip(part)[i] = "."}) <= 1
    /\ Strip(part) # <<>> /\ IsDigit(Strip(part)[1]) /\ IsDigit(Strip(part)[Len(Strip(part))])
    /\ \E i \in 1..Len(Strip(part)) : IsDigit(Strip(part)[i]) /\ Strip(part)[i] # "0"

CompositeParts == IF composite_in.k = "str" THEN SplitBy(composite_in.s, "/") ELSE <<>>

RejectsIllFormed ==
    (Len(CompositeParts) # 3 \/ \E i \in 1..Len(CompositeParts) : ~NumberAboveZero(CompositeParts[i]))
        => ~composite_out.parsed.ok

RoundTripOfPlainNumerals ==
    composite_out.done =>
      /\ (Len(CompositeParts) = 3 /\ \A i \in 1..3 : PlainNumeral(CompositeParts[i]))
            => (composite_out.parsed.ok /\ composite_out.formatted = composite_in)
      /\ RejectsIllFormed

RoundTripOfPlainNumeralsWitness ==
    /\ composite_out.done
    /\ composite_in = Str(<<"7","/","1","0","/","1","9","7">>)
    /\ composite_out.parsed = Dims(7000, 10000, 197000)
    /\ composite_out.formatted = composite_in

\* the round trip for every string whose components denote positive integers
RoundTripOfPositiveIntegers ==
    composite_out.done =>
      /\ (Len(CompositeParts) = 3 /\ \A i \in 1..3 : PositiveInteger(CompositeParts[i]))
            => (composite_out.parsed.ok /\ composite_out.formatted = composite_in)
      /\ RejectsIllFormed

(***************************************************************************)
(* C12  The persisted correspondence set equals the matcher's output: when *)
(* the set S that compare_columns returned (its three-way matches filtered *)
(* at 0.85) is saved by save_schema_matches and read by get_schema_matches *)
(* for a run, the set the engine receives has the same three-way matches   *)
(* (labels, confidence, mandatory flag) and the same three two-way buckets *)
(* as S.                                                                   *)
(***************************************************************************)
SameMatch(loaded, returned) ==
    /\ loaded.column_1 = returned.column_1
    /\ loaded.column_2 = returned.column_2
    /\ loaded.column_3 = returned.column_3
    /\ loaded.confidence = returned.confidence
    /\ loaded.mandatory = sql_bool(returned.mandatory)

\* process_files has read the schema that the last handler run created
LoadedTheCreated ==
    /\ loaded_schema_id # NoSchemaId
    /\ creation.op = "create"
    /\ creation.answer = "created"
    /\ creation.schema_id = loaded_schema_id

SameThreeWay ==
    /\ Len(comparison_result.matches_all_three) = Len(creation.returned.matches_all_three)
    /\ \A i \in 1..Len(comparison_result.matches_all_three) :
          SameMatch(comparison_result.matches_all_three[i],
                    creation.returned.matches_all_three[i])

PersistedEqualsReturned ==
    LoadedTheCreated =>
      /\ SameThreeWay
      /\ comparison_result.matches_1_2 = creation.returned.matches_1_2
      /\ comparison_result.matches_1_3 = creation.returned.matches_1_3
      /\ comparison_result.matches_2_3 = creation.returned.matches_2_3

(***************************************************************************)
(* C13  Confidence threshold on persistence: every stored three-way match  *)
(* has a confidence of at least 0.85; after a schema was created, each     *)
(* three-way match the matcher returned with a confidence of 0.85 or more  *)
(* is stored (0.85 itself included), each one below 0.85 is absent from    *)
(* the stored schema, and the reported skipped count is the number of      *)
(* returned three-way matches below 0.85.                                  *)
(***************************************************************************)
StoredFor(schema_id, match) ==
    \E i \in 1..Len(schema_matches) :
        /\ schema_matches[i].schema_id = schema_id
        /\ schema_matches[i].wb_column = match.column_1
        /\ schema_matches[i].ozon_column = match.column_2
        /\ schema_matches[i].yandex_column = match.column_3
        /\ schema_matches[i].confidence = match.confidence

MatcherThreeWay == creation.matcher.result.matches_all_three

BelowThreshold == {i \in 1..Len(MatcherThreeWay) : MatcherThreeWay[i].confidence < 85}

SchemaCreated == creation.op = "create" /\ creation.answer = "created"

ThresholdOnPersistence ==
    /\ \A i \in 1..Len(schema_matches) : schema_matches[i].confidence >= 85
    /\ SchemaCreated =>
         /\ \A i \in 1..Len(MatcherThreeWay) :
               (i \in BelowThreshold) = ~StoredFor(creation.schema_id, MatcherThreeWay[i])
         /\ creation.skipped_count = Cardinality(BelowThreshold)

\* a schema created from a match at 0.85, stored, and one at 0.84, skipped
ThresholdOnPersistenceWitness ==
    /\ SchemaCreated
    /\ \E i, j \in 1..Len(MatcherThreeWay) :
          /\ MatcherThreeWay[i].confidence = 85
          /\ StoredFor(creation.schema_id, MatcherThreeWay[i])
          /\ MatcherThreeWay[j].confidence = 84
          /\ ~StoredFor(creation.schema_id, MatcherThreeWay[j])
    /\ creation.skipped_count = 1

(***************************************************************************)
(* C14  Schema names are unique per owner: create_schema returns no schema *)
(* id when the owner already has a schema of that name and leaves the      *)
(* tables as they were; after any sequence of creations and deletions no   *)
(* owner has two schemas of the same name; different owners may hold the   *)
(* same name.                                                              *)
(***************************************************************************)
NameWasTaken ==
    /\ creation.op = "create"
    /\ ~creation.matcher.raised
    /\ schema_exists(creation.before, creation.user_id, creation.schema_name)

SchemaNamesUnique ==
    /\ \A i, j \in 1..Len(schemas) :
          (schemas[i].user_id = schemas[j].user_id
           /\ schemas[i].schema_name = schemas[j].schema_name) => i = j
    /\ NameWasTaken =>
          /\ creation.schema_id = NoSchemaId
          /\ creation.answer = "exists"
          /\ Db(schemas, schema_matches, schema_seq) = creation.before

\* a creation refused for a taken name whose schema has stored matches,
\* while another owner holds a schema of the same name
SchemaNamesUniqueWitness ==
    /\ NameWasTaken
    /\ creation.schema_id = NoSchemaId
    /\ \E r \in 1..Len(schema_matches) :
          schema_matches[r].schema_id =
              get_schema(creation.before, creation.user_id, creation.schema_name)
    /\ \E i, j \in 1..Len(schemas) :
          /\ schemas[i].user_id # schemas[j].user_id
          /\ schemas[i].schema_name = schemas[j].schema_name
          /\ schemas[i].schema_name = creation.schema_name

(***************************************************************************)
(* C15  Cancellation is reported as failed, never delivered: when          *)
(* cancel_processing is invoked after process_files has started and before *)
(* the run was marked completed, process_files ends with the processing    *)
(* record in status 'failed', and no output file and no report is sent.    *)
(***************************************************************************)
BeforeCompletion ==
    {"start", "loaded", "prepared", "syncing", "sleeping", "reporting", "counted"}

CancelledNeverDelivered ==
    cancelled_at \in BeforeCompletion =>
        /\ processing.status # "completed"
        /\ sent = <<>>
        /\ proc_pc = "ended" => processing.status = "failed"

(***************************************************************************)
(* C16  Oracle decode failure handling: when a response to a column-       *)
(* matching prompt cannot be parsed, in the first or in the second pass,   *)
(* compare_columns raises and returns no correspondence set, and schema    *)
(* creation then stores no schema; when the Oracle call fails during value *)
(* matching, match_value_with_list returns no match, only that value's     *)
(* level 5 fails, the target cell is left empty and the run continues.     *)
(***************************************************************************)
NothingMatched == Parsed(<<>>, <<>>, <<>>, <<>>, <<>>, <<>>, <<>>, TRUE)

SchemaOutcome(first, second) ==
    compare_columns(SchemaColumns[1], SchemaColumns[2], SchemaColumns[3], first, second)

ParseFailureRaises ==
    /\ \A first \in SchemaResponses, second \in SchemaSecondResponses :
          /\ ~first.ok => SchemaOutcome(first, second).raised
          /\ SchemaOutcome(first, second).raised =>
                /\ SchemaOutcome(first, second).result = NoMatches
                /\ ~first.ok \/ ~second.ok
    /\ SchemaOutcome(NothingMatched, ParseError).raised

\* the parts of the value of a write decision whose Oracle call failed
FailedAtOracle(f) ==
    {p \in SeqToSet(value_parts(Strip(StrOf(f.converted)))) :
        /\ f.allowed # <<>>
        /\ InSeq(ai_requests, p)
        /\ ~OracleAnswer(ai_comparator.oracle, p).ok}

OracleFailureHandling ==
    /\ ParseFailureRaises
    /\ (creation.op = "create" /\ creation.matcher.raised) =>
          /\ creation.answer = "error"
          /\ creation.schema_id = NoSchemaId
          /\ Db(schemas, schema_matches, schema_seq) = creation.before
    /\ pc # "crashed"
    /\ \A i \in 1..Len(fill_trace) :
          /\ FailedAtOracle(fill_trace[i]) # {} =>
                /\ ~Truthy(fill_trace[i].final)
                /\ ~fill_trace[i].written
                /\ IsBlank(fill_trace[i].stored)
                /\ fill_trace[i].log_after = fill_trace[i].log_before
          /\ (FailedAtOracle(fill_trace[i]) = {} /\ Truthy(fill_trace[i].final)) =>
                /\ fill_trace[i].written
                /\ SameCell(fill_trace[i].stored, fill_trace[i].final)

\* a run that ended after a value's Oracle call failed and another value was
\* written, on a schema loaded before a later creation failed on a response
\* that could not be parsed
OracleFailureHandlingWitness ==
    /\ creation.op = "create" /\ creation.matcher.raised
    /\ schemas # <<>>
    /\ pc = "done"
    /\ \E i, j \in 1..Len(fill_trace) :
          /\ FailedAtOracle(fill_trace[i]) # {}
          /\ IsBlank(fill_trace[i].stored)
          /\ FailedAtOracle(fill_trace[j]) = {}
          /\ fill_trace[j].written

(***************************************************************************)
(* C17  Missing identifier column aborts before any write: when one of the *)
(* three loaded tables lacks its catalog's identifier column,              *)
(* synchronize_data ends with an error and has modified no cell and        *)
(* inserted no row in any table, its change log is empty and it does not   *)
(* reach the saving of the output files.                                   *)
(***************************************************************************)
AbortsBeforeAnyWrite ==
    Lacking # {} =>
        /\ dfs = dfs_loaded
        /\ changes_log = EmptyLog
        /\ pc \notin {"synced", "done"}

(***************************************************************************)
(* C18  Three-way source selection: for one three-way correspondence and   *)
(* one identifier the source value is the value of the first catalog in    *)
(* the order wildberries, ozon, yandex whose cell is non-empty; it is      *)
(* written, after unit conversion and validation, only into catalogs whose *)
(* cell for the identifier was empty; a non-empty cell, the source's       *)
(* included, stays as it was; when all three cells are empty nothing is    *)
(* written.                                                                *)
(***************************************************************************)
TheMatch == MatchColumns(comparison_result.matches_all_three[1])

CellBefore(m, article) == ValueAt(dfs_before, m, article, TheMatch[m])
CellAfter(m, article) == ValueAt(dfs, m, article, TheMatch[m])

NonEmptyBefore(article) == {i \in 1..3 : ~IsBlank(CellBefore(MPOrder[i], article))}

\* the first catalog, in the fixed order, whose cell was non-empty
SourceCatalog(article) ==
    MPOrder[CHOOSE i \in NonEmptyBefore(article) : \A j \in NonEmptyBefore(article) : i <= j]

\* the cell of catalog m was written from the source catalog's value
WrittenFromSource(m, article) ==
    \E i \in 1..Len(fill_trace) :
        /\ fill_trace[i].marketplace = m
        /\ fill_trace[i].article = article
        /\ fill_trace[i].column = TheMatch[m]
        /\ fill_trace[i].written
        /\ SameCell(fill_trace[i].converted,
                    convert_value(CellBefore(SourceCatalog(article), article),
                                  detect_unit(TheMatch[SourceCatalog(article)]),
                                  detect_unit(TheMatch[m])))
        /\ SameCell(CellAfter(m, article),
                    IF Truthy(fill_trace[i].final) THEN fill_trace[i].final
                    ELSE fill_trace[i].converted)

SelectionFor(article) ==
    /\ \A m \in MP : ~IsBlank(CellBefore(m, article)) =>
                        CellAfter(m, article) = CellBefore(m, article)
    /\ NonEmptyBefore(article) = {} =>
          /\ \A m \in MP : IsBlank(CellAfter(m, article))
          /\ \A i \in 1..Len(fill_trace) : fill_trace[i].article # article
          /\ \A m \in MP : EntriesFor(m, article, TheMatch[m]) = {}
    /\ NonEmptyBefore(article) # {} =>
          \A m \in MP : (IsBlank(CellBefore(m, article)) /\ ~IsBlank(CellAfter(m, article)))
                           => WrittenFromSource(m, article)

ThreeWaySourceSelection ==
    pc = "synced" =>
       \A article \in AllKeys(dfs_before) :
          (\A m \in MP : HasRow(dfs_before, m, article)) => SelectionFor(article)

\* Wildberries empty, Ozon and Yandex filled with different values: the
\* Wildberries cell received the Ozon value and the Yandex cell stayed
ThreeWaySourceSelectionWitness ==
    /\ pc = "synced"
    /\ \E article \in AllKeys(dfs_before) :
          /\ \A m \in MP : HasRow(dfs_before, m, article)
          /\ NonEmptyBefore(article) = {2, 3}
          /\ CellBefore("ozon", article) # CellBefore("yandex", article)
          /\ WrittenFromSource("wildberries", article)
          /\ CellAfter("yandex", article) = CellBefore("yandex", article)

(***************************************************************************)
(* C19  Composite-field priority in the Dimension Synchronizer: for an     *)
(* identifier whose Yandex composite cell is empty, after sync_dimensions  *)
(* the composite is built from the WB triple (cm) when WB has all three    *)
(* sub-fields, and from the Ozon triple converted from mm to cm only when  *)
(* WB has no complete triple and Ozon has one; an identifier whose Yandex  *)
(* composite was present and parseable keeps it, and the composite is the  *)
(* source for the empty WB and Ozon sub-fields.                            *)
(***************************************************************************)
RowsOf(m, article) ==
    {r \in 1..NRows(dfs_before[m]) :
        ArticleKey(dfs_before[m], r, ARTICLE_COLUMNS[m]) = article}

\* the identifier has one Yandex row and at most one row in WB and in Ozon
SingleRows(article) ==
    /\ Cardinality(RowsOf("yandex", article)) = 1
    /\ Cardinality(RowsOf("wildberries", article)) <= 1
    /\ Cardinality(RowsOf("ozon", article)) <= 1

TheRow(m, article) == CHOOSE r \in RowsOf(m, article) : TRUE

AllDimensionColumns ==
    /\ HasDimensionColumns(dfs_before.wildberries, "wildberries")
    /\ HasDimensionColumns(dfs_before.ozon, "ozon")
    /\ HasCol(dfs_before.yandex, YANDEX_COMPOSITE)

\* the three sub-fields of the identifier's row are non-empty
AllSubFields(m, article) ==
    /\ RowsOf(m, article) # {}
    /\ \A i \in 1..3 :
          ~IsBlank(Cell(dfs_before[m], TheRow(m, article), DIMENSIONS_MAPPING[m][i]))

\* and each of them is a number: the triple in cm
TripleOf(m, article) ==
    IF RowsOf(m, article) = {} THEN NoDims
    ELSE row_dims(m, dfs_before[m], TheRow(m, article))

CompositeBefore(article) ==
    Cell(dfs_before.yandex, TheRow("yandex", article), YANDEX_COMPOSITE)
CompositeAfter(article) ==
    Cell(dfs.yandex, TheRow("yandex", article), YANDEX_COMPOSITE)

\* the composite was present and parseable, is kept, and filled the empty
\* sub-fields of WB (cm) and Ozon (whole mm)
CompositeIsSource(article) ==
    parse_composite_dimensions(CompositeBefore(article)).ok =>
       /\ CompositeAfter(article) = CompositeBefore(article)
       /\ \A i \in 1..3 :
            /\ ( /\ RowsOf("wildberries", article) # {}
                 /\ IsBlank(Cell(dfs_before.wildberries, TheRow("wildberries", article),
                                 DIMENSIONS_MAPPING.wildberries[i])) )
               => SameCell(Cell(dfs.wildberries, TheRow("wildberries", article),
                                DIMENSIONS_MAPPING.wildberries[i]),
                           Num(parse_composite_dimensions(CompositeBefore(article)).d[i]))
            /\ ( /\ RowsOf("ozon", article) # {}
                 /\ IsBlank(Cell(dfs_before.ozon, TheRow("ozon", article),
                                 DIMENSIONS_MAPPING.ozon[i])) )
               => SameCell(Cell(dfs.ozon, TheRow("ozon", article),
                                DIMENSIONS_MAPPING.ozon[i]),
                           PyInt((parse_composite_dimensions(CompositeBefore(article)).d[i]
                                  * 10) \div 1000))

\* an empty composite, by what the WB and the Ozon row hold
EmptyCompositeFilled(article, wb_complete, wb, ozon) ==
    IsBlank(CompositeBefore(article)) =>
       /\ wb_complete => (wb.ok /\ CompositeAfter(article) = format_composite_dimensions(wb.d))
       /\ (~wb_complete /\ ozon.ok) =>
             CompositeAfter(article) = format_composite_dimensions(ozon.d)
       /\ (~wb_complete /\ ~ozon.ok) => CompositeAfter(article) = CompositeBefore(article)

TripleMissing(m, article) ==
    /\ RowsOf(m, article) # {}
    /\ \A i \in 1..3 :
          IsBlank(Cell(dfs_before[m], TheRow(m, article), DIMENSIONS_MAPPING[m][i]))

\* the sub-fields of the identifier's row hold the triple (in the catalog's unit)
TripleIs(m, article, triple) ==
    \A i \in 1..3 :
       SameCell(Cell(dfs[m], TheRow(m, article), DIMENSIONS_MAPPING[m][i]), Num(triple[i]))

MmOf(triple) == [i \in 1..3 |-> cm_to_mm(triple[i])]
WholeMmOf(triple) == [i \in 1..3 |-> ((triple[i] * 10) \div 1000) * 1000]

\* a missing triple is filled from a present composite
TripleFromComposite(article) ==
    parse_composite_dimensions(CompositeBefore(article)).ok =>
       /\ TripleMissing("wildberries", article) =>
             TripleIs("wildberries", article,
                      parse_composite_dimensions(CompositeBefore(article)).d)
       /\ TripleMissing("ozon", article) =>
             TripleIs("ozon", article,
                      WholeMmOf(parse_composite_dimensions(CompositeBefore(article)).d))

\* without a composite, a missing WB triple is filled from Ozon (mm to cm)
WBTripleFromOzon(article) ==
    ( /\ IsBlank(CompositeBefore(article))
      /\ TripleMissing("wildberries", article)
      /\ TripleOf("ozon", article).ok )
    => TripleIs("wildberries", article, TripleOf("ozon", article).d)

\* without a composite, a missing Ozon triple is filled from WB (cm to mm)
OzonTripleFromWB(article) ==
    ( /\ IsBlank(CompositeBefore(article))
      /\ TripleMissing("ozon", article)
      /\ TripleOf("wildberries", article).ok )
    => TripleIs("ozon", article, MmOf(TripleOf("wildberries", article).d))

TriplePriority ==
    (pc = "dims" /\ AllDimensionColumns) =>
       \A article \in AllKeys(dfs_before) :
          SingleRows(article) =>
             /\ TripleFromComposite(article)
             /\ WBTripleFromOzon(article)
             /\ OzonTripleFromWB(article)

(***************************************************************************)
(* C21  Row Aligner placement and order: in each catalog the placeholder   *)
(* rows for the missing identifiers are inserted as one contiguous block   *)
(* immediately after the last input row holding a valid identifier (at the *)
(* very beginning when the catalog has none), in ascending sorted          *)
(* identifier order; every inserted row has all columns empty except the   *)
(* identifier column; the original rows keep their relative order and      *)
(* their cell contents, and the trailing empty or instructional rows       *)
(* remain after the inserted block.                                        *)
(***************************************************************************)
ValidRowsOf(t, article_col) ==
    {r \in 1..NRows(t) : IsValidArticle(Cell(t, r, article_col))}

\* the position of the last row with a valid identifier, 0 when there is none
LastValidRow(t, article_col) ==
    IF ValidRowsOf(t, article_col) = {} THEN 0
    ELSE CHOOSE r \in ValidRowsOf(t, article_col) :
            \A q \in ValidRowsOf(t, article_col) : q <= r

MissingIn(m) ==
    (UNION {valid_articles(dfs_before[x], ARTICLE_COLUMNS[x]) : x \in MP})
        \ valid_articles(dfs_before[m], ARTICLE_COLUMNS[m])

SameRow(a, b) ==
    /\ Len(a) = Len(b)
    /\ \A c \in 1..Len(a) : SameCell(a[c], b[c])

\* row r of the aligned table is a placeholder for one missing identifier
IsPlaceholder(m, r) ==
    /\ Cell(dfs[m], r, ARTICLE_COLUMNS[m]).k = "str"
    /\ Cell(dfs[m], r, ARTICLE_COLUMNS[m]).s \in MissingIn(m)
    /\ \A c \in 1..Len(dfs[m].columns) :
          dfs[m].columns[c] # ARTICLE_COLUMNS[m] => dfs[m].rows[r][c] = None

PlacedAfterLastValid(m, last, added) ==
    /\ dfs[m].columns = dfs_before[m].columns
    /\ NRows(dfs[m]) = NRows(dfs_before[m]) + added
    /\ \A r \in 1..last : SameRow(dfs[m].rows[r], dfs_before[m].rows[r])
    /\ \A r \in (last + 1)..(last + added) : IsPlaceholder(m, r)
    /\ \A r \in (last + 1)..(last + added - 1) :
          StrLess(Cell(dfs[m], r, ARTICLE_COLUMNS[m]).s,
                  Cell(dfs[m], r + 1, ARTICLE_COLUMNS[m]).s)
    /\ \A r \in (last + 1)..NRows(dfs_before[m]) :
          SameRow(dfs[m].rows[r + added], dfs_before[m].rows[r])

PlacementAndOrder ==
    pc = "aligned" =>
       \A m \in MP :
          PlacedAfterLastValid(m, LastValidRow(dfs_before[m], ARTICLE_COLUMNS[m]),
                               Cardinality(MissingIn(m)))

\* one catalog received a row between its last valid identifier and a
\* trailing row; another, without valid identifier, received two rows
\* ahead of its instructional row
PlacementAndOrderWitness ==
    /\ pc = "aligned"
    /\ \E m \in MP :
          /\ Cardinality(MissingIn(m)) = 1
          /\ LastValidRow(dfs_before[m], ARTICLE_COLUMNS[m]) \in 1..(NRows(dfs_before[m]) - 1)
          /\ IsPlaceholder(m, LastValidRow(dfs_before[m], ARTICLE_COLUMNS[m]) + 1)
    /\ \E m \in MP :
          /\ Cardinality(MissingIn(m)) = 2
          /\ NRows(dfs_before[m]) = 1
          /\ IsPlaceholder(m, 1)
          /\ IsPlaceholder(m, 2)
          /\ dfs[m].rows[3] = dfs_before[m].rows[1]
          /\ Cell(dfs[m], 3, ARTICLE_COLUMNS[m]) = Str(InstructionalCell)

(***************************************************************************)
(* C22  The wrong-unit correction pass touches exactly the mis-propagated  *)
(* values: after the correction pass that follows propagation, every WB    *)
(* packed-dimension cell that was written by propagation during this run   *)
(* and holds a value >= 100 (100 included) has been replaced by that value *)
(* divided by 10, and every WB packed-dimension cell that was not written  *)
(* during this run (a value already present in the loaded table) keeps its *)
(* loaded value whatever its magnitude.                                    *)
(***************************************************************************)
\* the cell of the loaded WB table; the aligner inserts rows after the
\* loaded ones, so a row beyond the loaded table was not there
LoadedWB(r, col) ==
    IF r <= NRows(dfs_loaded.wildberries) /\ HasCol(dfs_loaded.wildberries, col)
    THEN Cell(dfs_loaded.wildberries, r, col) ELSE None

\* the cell as propagation left it, before the correction pass
PropagatedWB(r, col) == Cell(dfs_before.wildberries, r, col)

WrittenThisRun(r, col) == IsBlank(LoadedWB(r, col)) /\ ~IsBlank(PropagatedWB(r, col))

PresentWhenLoaded(r, col) ==
    ~IsBlank(LoadedWB(r, col)) /\ PropagatedWB(r, col) = LoadedWB(r, col)

WBDimensionCells ==
    {rc \in (1..NRows(dfs.wildberries)) \X SeqToSet(DIMENSIONS_MAPPING.wildberries) :
        HasCol(dfs.wildberries, rc[2])}

\* a propagated value of 100 or more is divided by 10
PropagatedCorrected ==
    \A rc \in WBDimensionCells :
       ( /\ WrittenThisRun(rc[1], rc[2])
         /\ ToFloat(PropagatedWB(rc[1], rc[2])).ok
         /\ ToFloat(PropagatedWB(rc[1], rc[2])).n >= 100 * 1000 )
       => SameCell(Cell(dfs.wildberries, rc[1], rc[2]),
                   Num(ToFloat(PropagatedWB(rc[1], rc[2])).n \div 10))

\* a loaded value is kept
LoadedKept ==
    \A rc \in WBDimensionCells :
       PresentWhenLoaded(rc[1], rc[2])
       => SameCell(Cell(dfs.wildberries, rc[1], rc[2]), LoadedWB(rc[1], rc[2]))

CorrectionTouchesOnlyPropagated ==
    pc = "done" => (PropagatedCorrected /\ LoadedKept)

(***************************************************************************)
(* C23  Mandatory-match injection: for each mandatory template, after pass *)
(* 1 the template's labels are resolved against the filtered label lists   *)
(* (the exact label first, then the first case-insensitive substring hit   *)
(* in input order); if all labels needed for a three-way (or two-way)      *)
(* match resolve and no existing correspondence in the result already      *)
(* consumes any of the resolved labels, a match with those labels,         *)
(* confidence 1.0 and mandatory = true is inserted at the front of the     *)
(* corresponding bucket; otherwise nothing is inserted. Injected mandatory *)
(* matches stay ahead of all pass-2 matches in the final result.           *)
(***************************************************************************)
Buckets == {"matches_all_three", "matches_1_2", "matches_1_3", "matches_2_3"}

FilteredLabels(columns) == SelectSeq(columns, LAMBDA col : ~is_excluded_column(col))

\* the label a template term resolves to, <<>> when it resolves to none
Resolved(columns, term) ==
    IF term = <<>> THEN <<>>
    ELSE IF \E i \in 1..Len(columns) : columns[i] = term THEN term
    ELSE IF \E i \in 1..Len(columns) : Contains(Lower(columns[i]), Lower(term))
    THEN columns[CHOOSE i \in 1..Len(columns) :
                    /\ Contains(Lower(columns[i]), Lower(term))
                    /\ \A j \in 1..(i - 1) : ~Contains(Lower(columns[j]), Lower(term))]
    ELSE <<>>

\* the match of template i on the labels of this call
TemplateMatch(i) ==
    [column_1 |-> Resolved(FilteredLabels(ai_call.columns_1), MANDATORY_MATCHES[i].column_1),
     column_2 |-> Resolved(FilteredLabels(ai_call.columns_2), MANDATORY_MATCHES[i].column_2),
     column_3 |-> Resolved(FilteredLabels(ai_call.columns_3), MANDATORY_MATCHES[i].column_3),
     confidence |-> 100, mandatory |-> TRUE]

\* the bucket the resolved labels of template i make a match for
BucketOf(i) ==
    CASE TemplateMatch(i).column_1 # <<>> /\ TemplateMatch(i).column_2 # <<>>
            /\ TemplateMatch(i).column_3 # <<>> -> "matches_all_three"
      [] TemplateMatch(i).column_1 # <<>> /\ TemplateMatch(i).column_2 # <<>>
            /\ TemplateMatch(i).column_3 = <<>> -> "matches_1_2"
      [] TemplateMatch(i).column_1 # <<>> /\ TemplateMatch(i).column_2 = <<>>
            /\ TemplateMatch(i).column_3 # <<>> -> "matches_1_3"
      [] TemplateMatch(i).column_1 = <<>> /\ TemplateMatch(i).column_2 # <<>>
            /\ TemplateMatch(i).column_3 # <<>> -> "matches_2_3"
      [] OTHER -> "none"

SharesLabel(a, b) ==
    \/ a.column_1 # <<>> /\ a.column_1 = b.column_1
    \/ a.column_2 # <<>> /\ a.column_2 = b.column_2
    \/ a.column_3 # <<>> /\ a.column_3 = b.column_3

ConsumedIn(matches, mt) == \E k \in 1..Len(matches) : SharesLabel(matches[k], mt)

\* template i is injected: its labels resolve and neither the response to
\* the first prompt nor an earlier injected match holds one of them; these
\* are looked up in the template's bucket, or, with whole_result, in all
RECURSIVE InjectedWithin(_, _)
InjectedWithin(i, whole_result) ==
    /\ BucketOf(i) \in Buckets
    /\ \A b \in Buckets :
          (whole_result \/ b = BucketOf(i)) =>
             ~ConsumedIn(ai_call.first.result[b], TemplateMatch(i))
    /\ \A j \in 1..(i - 1) :
          ( /\ (whole_result \/ BucketOf(j) = BucketOf(i))
            /\ SharesLabel(TemplateMatch(j), TemplateMatch(i)) )
          => ~InjectedWithin(j, whole_result)

\* the injected matches of bucket b, the one of the last template first
RECURSIVE InjectedInto(_, _, _)
InjectedInto(b, i, whole_result) ==
    IF i = 0 THEN <<>>
    ELSE (IF BucketOf(i) = b /\ InjectedWithin(i, whole_result)
          THEN <<TemplateMatch(i)>> ELSE <<>>)
         \o InjectedInto(b, i - 1, whole_result)

\* the bucket of the returned set is the injected matches, the matches of
\* the first response, and then nothing or the matches of the second
InjectedAhead(b, injected) ==
    \/ comparison_result[b] = injected \o ai_call.first.result[b]
    \/ /\ ai_call.second.ok
       /\ comparison_result[b] =
             injected \o ai_call.first.result[b] \o ai_call.second.result[b]

PassOneThreeWay ==
    InjectedInto("matches_all_three", Len(MANDATORY_MATCHES), FALSE)
       \o ai_call.first.result.matches_all_three

ColumnKeys == <<"column_1", "column_2", "column_3">>

InputLabels == <<ai_call.columns_1, ai_call.columns_2, ai_call.columns_3>>

\* the labels of catalog k left for the second prompt
RemainingLabels(k, three_way) ==
    SelectSeq(FilteredLabels(InputLabels[k]),
              LAMBDA col : /\ col # <<>>
                           /\ \A i \in 1..Len(three_way) : three_way[i][ColumnKeys[k]] # col)

SecondCallMade == Len(ai_call.prompts) = 2

\* every label of the second response's three-way matches was in the prompt
OnlyGivenLabels ==
    \A i \in 1..Len(ai_call.second.result.matches_all_three) : \A k \in 1..3 :
       InSeq(ai_call.prompts[2][k], ai_call.second.result.matches_all_three[i][ColumnKeys[k]])

SecondPassReceives(three_way, remaining) ==
    /\ SecondCallMade = (\E k \in 1..3 : remaining[k] # <<>>)
    /\ SecondCallMade => ai_call.prompts[2] = remaining
    /\ (pc = "matched" /\ SecondCallMade /\ OnlyGivenLabels) =>
          \A i \in 1..Len(ai_call.second.result.matches_all_three) :
             \A j \in 1..Len(three_way) : \A k \in 1..3 :
                ai_call.second.result.matches_all_three[i][ColumnKeys[k]]
                   # three_way[j][ColumnKeys[k]]

SecondPassAfter(three_way) ==
    SecondPassReceives(three_way, <<RemainingLabels(1, three_way),
                                    RemainingLabels(2, three_way),
                                    RemainingLabels(3, three_way)>>)

SecondPassInput ==
    (pc \in {"matched", "match_failed"} /\ ai_call.first.ok) =>
       SecondPassAfter(PassOneThreeWay)

\* a second call that left out the labels of an injected match, kept a label
\* of a pass-1 two-way match, and was answered with a three-way match on
\* labels it was given
SecondPassInputWitness ==
    /\ pc = "matched"
    /\ SecondCallMade
    /\ PassOneThreeWay # <<>>
    /\ PassOneThreeWay[1].mandatory
    /\ ~InSeq(ai_call.prompts[2][1], PassOneThreeWay[1].column_1)
    /\ \E i \in 1..Len(ai_call.first.result.matches_1_3) :
          InSeq(ai_call.prompts[2][1], ai_call.first.result.matches_1_3[i].column_1)
    /\ ai_call.second.result.matches_all_three # <<>>
    /\ OnlyGivenLabels

(***************************************************************************)
(* C25  Three-way and two-way buckets do not share columns: in the         *)
(* correspondence set returned by compare_columns (pass 1, mandatory       *)
(* injection, pass 2 and merge), no column label that appears in a         *)
(* three-way match also appears in a two-way match for the same catalog,   *)
(* and no column label appears in two matches of the same bucket.          *)
(***************************************************************************)
\* the labels of catalog k that the matches of a bucket hold
LabelsOf(matches, k) ==
    {matches[i][ColumnKeys[k]] : i \in 1..Len(matches)} \ {<<>>}

TwoWayBuckets == {"matches_1_2", "matches_1_3", "matches_2_3"}

NoSharedColumn(result) ==
    \A k \in 1..3 : \A b \in TwoWayBuckets :
       LabelsOf(result.matches_all_three, k) \cap LabelsOf(result[b], k) = {}

NoRepeatedColumn(matches) ==
    \A i, j \in 1..Len(matches) : \A k \in 1..3 :
       (i # j /\ matches[i][ColumnKeys[k]] # <<>>)
       => matches[i][ColumnKeys[k]] # matches[j][ColumnKeys[k]]

BucketsDisjoint ==
    pc = "matched" =>
       /\ NoSharedColumn(comparison_result)
       /\ \A b \in Buckets : NoRepeatedColumn(comparison_result[b])

\* a response that keeps to the rule itself and names only labels of its prompt
ConsistentResponse(response, prompt) ==
    /\ NoSharedColumn(response.result)
    /\ \A b \in Buckets :
          /\ NoRepeatedColumn(response.result[b])
          /\ \A k \in 1..3 : LabelsOf(response.result[b], k) \subseteq SeqToSet(prompt[k])

ConsistentOracle ==
    /\ ConsistentResponse(ai_call.first, ai_call.prompts[1])
    /\ SecondCallMade => ConsistentResponse(ai_call.second, ai_call.prompts[2])

(***************************************************************************)
(* C26  Incremental schema update is append-only over uncovered columns    *)
(***************************************************************************)
\* the rows of a schema in table schema_matches, in the order of their ids
StoredRows(table, schema_id) ==
    SelectSeq(table, LAMBDA r : r.schema_id = schema_id)

RowsBeforeUpdate == StoredRows(creation.before.schema_matches, creation.schema_id)
RowsAfterUpdate == StoredRows(schema_matches, creation.schema_id)

\* the labels the stored three-way matches held for each catalog
StoredLabels(rows) ==
    << {rows[i].wb_column : i \in 1..Len(rows)},
       {rows[i].ozon_column : i \in 1..Len(rows)},
       {rows[i].yandex_column : i \in 1..Len(rows)} >>

SameTriple(a, b) ==
    /\ a.wb_column = b.wb_column
    /\ a.ozon_column = b.ozon_column
    /\ a.yandex_column = b.yandex_column

\* every label handed to the matcher is a label of the uploaded file that no
\* stored three-way match holds for that catalog
PassedOnlyUncovered(passed, all_columns, stored) ==
    \A k \in 1..3 : \A c \in 1..Len(passed[k]) :
        /\ passed[k][c] \in SeqToSet(all_columns[k])
        /\ passed[k][c] \notin stored[k]

\* the stored matches come first, row for row as they were
StoredKept(old, now) ==
    /\ Len(now) >= Len(old)
    /\ SubSeq(now, 1, Len(old)) = old

\* what follows them is new: at or above the threshold, and its triple is
\* the triple of no stored match and of no other added match
OnlyNewAdded(old, now) ==
    \A j \in (Len(old) + 1)..Len(now) :
        /\ now[j].confidence >= CONFIDENCE_THRESHOLD
        /\ \A i \in 1..(j - 1) : ~SameTriple(now[i], now[j])

\* no column of the three files is uncovered
NothingUncovered(all_columns, stored) ==
    \A k \in 1..3 : SeqToSet(all_columns[k]) \subseteq stored[k]

UpdateFrame ==
    /\ schemas = creation.before.schemas
    /\ schema_seq = creation.before.seq
    /\ SelectSeq(schema_matches, LAMBDA r : r.schema_id # creation.schema_id)
         = SelectSeq(creation.before.schema_matches,
                     LAMBDA r : r.schema_id # creation.schema_id)

\* C26: after finalize_schema_update the matcher was handed only labels
\* that occur in no stored three-way match of the schema; every stored
\* match is still stored, unchanged; the rows added are three-way matches
\* with confidence >= 0.85 whose triple differs from every stored triple;
\* nothing else of the database changed; and when no column is uncovered
\* the matcher was not called and the schema is as it was
AppendOnlyUpdate ==
    creation.op = "update" =>
        /\ \A c \in 1..Len(creation.passed) :
              PassedOnlyUncovered(creation.passed[c], creation.all_columns,
                                  StoredLabels(RowsBeforeUpdate))
        /\ StoredKept(RowsBeforeUpdate, RowsAfterUpdate)
        /\ OnlyNewAdded(RowsBeforeUpdate, RowsAfterUpdate)
        /\ Len(RowsAfterUpdate) = Len(RowsBeforeUpdate) + creation.new_count
        /\ UpdateFrame
        /\ (NothingUncovered(creation.all_columns, StoredLabels(RowsBeforeUpdate))
              => /\ creation.passed = <<>>
                 /\ schema_matches = creation.before.schema_matches)

\* an update of a schema with stored matches whose files hold covered and
\* uncovered labels: the matcher got the uncovered ones and a match was added
AppendOnlyUpdateWitness ==
    /\ creation.op = "update"
    /\ Len(RowsBeforeUpdate) >= 2
    /\ creation.passed # <<>>
    /\ Len(creation.passed[1][1]) < Len(creation.all_columns[1])
    /\ creation.new_count >= 1
    /\ RowsAfterUpdate[Len(RowsAfterUpdate)].wb_column = WB_MATERIAL

(***************************************************************************)
(* C27  Column labels are unique after duplicate disambiguation            *)
(***************************************************************************)
\* the number of cells before cell i of the header row with the label of cell i
RepeatsBefore(i) == Cardinality({ j \in 1..(i - 1) : header_row[j] = header_row[i] })

\* no label twice in the returned list
NoLabelTwice ==
    \A i, j \in 1..Len(headers.headers) :
        headers.headers[i] = headers.headers[j] => i = j

\* the first occurrence of a label is returned as it was read
FirstOccurrenceKept ==
    \A i \in 1..Len(header_row) :
        RepeatsBefore(i) = 0 => headers.headers[i] = header_row[i]

\* the k-th repeat of label X is returned as X followed by k
RepeatNumbered ==
    \A i \in 1..Len(header_row) :
        RepeatsBefore(i) > 0
            => headers.headers[i] = header_row[i] \o NatDigits(RepeatsBefore(i))

\* the dictionary holds, for every renamed cell, the label it had
OriginalRecorded ==
    \A i \in 1..Len(header_row) :
        RepeatsBefore(i) > 0
            => /\ headers.headers[i] \in DictKeys(headers.renamed)
               /\ DictGet(headers.renamed, headers.headers[i]) = header_row[i]

\* C27: for any header row the list returned by _handle_duplicate_columns
\* has the length of the row, contains no label twice, keeps the first
\* occurrence of each label, renames the k-th repeat of X to X followed by
\* k, and records the original label of every renamed label
UniqueAfterDisambiguation ==
    headers.done =>
        /\ Len(headers.headers) = Len(header_row)
        /\ NoLabelTwice
        /\ FirstOccurrenceKept
        /\ RepeatNumbered
        /\ OriginalRecorded

\* the other parts of the statement, which hold
RenamingAsStated ==
    headers.done =>
        /\ Len(headers.headers) = Len(header_row)
        /\ FirstOccurrenceKept
        /\ RepeatNumbered
        /\ OriginalRecorded

(***************************************************************************)
(* C28  Values written under an allow-list are allow-list values           *)
(***************************************************************************)
\* the write decisions taken for a column that has a non-empty allow-list
\* and that wrote the cell
WritesUnderAllowList ==
    { i \in 1..Len(fill_trace) : fill_trace[i].allowed # <<>> /\ fill_trace[i].written }

\* v is the text of an entry of the list
IsEntry(v, allowed) == v.k = "str" /\ InSeq(allowed, v.s)

\* v is the join, by the catalog's separator, of two or more entries
IsJoinOfEntries(v, marketplace, allowed) ==
    /\ marketplace # "wildberries"
    /\ \E parts \in UNION {[1..n -> SeqToSet(allowed)] : n \in 2..(MaxParts + 1)} :
          v = Str(Join(parts, VALUE_SEPARATORS[marketplace]))

\* v is the number an entry of the list reads as
IsEntryAsNumber(v, allowed) ==
    /\ IsNumber(v)
    /\ \E i \in 1..Len(allowed) : ParseFloat(allowed[i]).ok /\ ParseFloat(allowed[i]).n = v.n

AllowListValue(f) ==
    \/ IsEntry(f.stored, f.allowed)
    \/ IsEntryAsNumber(f.stored, f.allowed)
    \/ IsJoinOfEntries(f.stored, f.marketplace, f.allowed)

\* C28: every value that propagation writes into a cell of a column with a
\* non-empty allow-list is an entry of that list or, on Ozon and Yandex,
\* the separator-join of entries; at every cascade level, the Oracle level
\* included, and whatever the data type of the target column
AllowListValuesOnly ==
    \A i \in WritesUnderAllowList : AllowListValue(fill_trace[i])

\* the same for the target columns that pandas holds as text
TextColumnWrites ==
    \A i \in WritesUnderAllowList :
        fill_trace[i].column \notin dfs_loaded[fill_trace[i].marketplace].numeric
            => AllowListValue(fill_trace[i])

(***************************************************************************)
(* C29  Terminal status of a processing record is final                    *)
(***************************************************************************)
TerminalStatuses == {"completed", "failed"}

\* complete_processing has marked the run and process_files goes on
AfterCompleteProcessing == proc_pc \in {"completed", "sending"}

\* a step leaves a terminal status as it is
StatusKept == processing.status \in TerminalStatuses => processing'.status = processing.status

\* a step after complete_processing does not make the record 'failed'
NotFailedAfterCompleted == AfterCompleteProcessing => processing'.status # "failed"

\* C29: once the record is 'completed' or 'failed' its status never
\* changes, and after complete_processing no later step of process_files
\* makes fail_processing change the record to 'failed'
TerminalStatusFinal == [][StatusKept /\ NotFailedAfterCompleted]_vars

\* the parts taken alone
CompletedStatusKept == [][processing.status = "completed" => processing'.status = "completed"]_vars
FailedStatusKept == [][processing.status = "failed" => processing'.status = "failed"]_vars
NeverFailedAfterCompleted == [][NotFailedAfterCompleted]_vars

(***************************************************************************)
(* C30  No engine activity after a run is reported cancelled               *)
(***************************************************************************)
\* process_files saw the flag in the loop, cancelled the task and recorded
\* the run as failed
ReportedCancelled ==
    /\ sync_task.state = "cancelled"
    /\ processing.status = "failed"
    /\ processing.error_message = CANCELLED_BY_USER

\* a step writes no table cell, appends nothing to the change log and
\* writes no output file
NoEngineActivity ==
    /\ dfs' = dfs
    /\ changes_log' = changes_log
    /\ (pc' = "saved") = (pc = "saved")

\* C30: once the run is reported cancelled, the synchronize_data call
\* started for it performs no further table write, change-log append or
\* output-file write
NoActivityAfterCancel == [][ReportedCancelled => NoEngineActivity]_vars

\* the parts taken alone
NoTableWriteAfterCancel == [][ReportedCancelled => dfs' = dfs]_vars
NoLogAppendAfterCancel == [][ReportedCancelled => changes_log' = changes_log]_vars
NoFileWriteAfterCancel == [][ReportedCancelled => ((pc' = "saved") = (pc = "saved"))]_vars

=============================================================================
